---- MODULE Spec2Model ----
(***************************************************************************)
(* Battle engine of pokemonSim (battle.py, pokemon.py, player.py) and the  *)
(* forced-switch step of its coordinator (network.py), as a state machine. *)
(*                                                                         *)
(* Python floats are modelled by exact rational arithmetic on integers:    *)
(* percentages are integers over 100, type-effectiveness values are        *)
(* integers over 2, and int(x) of a non-negative x is \div.  Fractions are *)
(* reduced before they are multiplied, to stay within TLC's integers.      *)
(***************************************************************************)
EXTENDS Integers, Sequences, FiniteSets, TLC

VARIABLES
    player,          \* Battle.player1 / player2: side -> [team, active_pokemon_index, potions]
    current_turn,    \* Battle.current_turn
    is_battle_over,  \* Battle.is_battle_over
    winner,          \* Battle.winner: 0 is None, else the side
    battle_log,      \* Battle.battle_log: the lines of the current turn
    pc,              \* position inside execute_turn: "idle", "acting", "eot"
    actions,         \* execute_turn's local list of (player, action) still to run
    mon,             \* a single Pokemon, for the method-level specifications
    ret,             \* the last method call on mon: its arguments and return value
    calls,           \* number of method calls made on mon
    dmg,             \* the last _calculate_damage call: its inputs and result
    run,             \* position of PokemonServer._run_battle in its battle loop
    replies,         \* _run_battle's locals host_action / challenger_action
    wire,            \* messages sent and received on the two sockets in the
                     \* current iteration of the battle loop, in order
    battles,         \* PokemonServer.battles: battle id -> its dictionary
    clients,         \* PokemonServer.clients: list of (socket, name)
    worker,          \* the _handle_client threads: position and locals of each
    conn,            \* the sockets: "open", "lost" (peer gone) or "closed"
    link,            \* one connection as a byte stream, with its two endpoints
    ai_difficulty    \* AIPlayer.difficulty of player2, "none" without an AIPlayer

vars == <<player, current_turn, is_battle_over, winner, battle_log, pc, actions,
          mon, ret, calls, dmg, run, replies, wire,
          battles, clients, worker, conn, link, ai_difficulty>>

battleVars == <<player, current_turn, is_battle_over, winner, battle_log, pc, actions>>
monVars == <<mon, ret, calls>>
serverVars == <<run, replies, wire>>
netVars == <<battles, clients, worker, conn, link>>

---------------------------------------------------------------------------
(* Bounds of the model *)

MaxTurns == 2
MaxCalls == 3
MaxItemCalls == 5
MaxWorkers == 3
MaxMessages == 2
MaxAITurns == 1

\* damage variance random.uniform(0.85, 1.0), in percent
Variance == {85, 100}

\* deltas handed to modify_stat_stage in the method-level specification
StageDeltas == {-7, -1, 1, 7}

Sides == {1, 2}
Other(side) == IF side = 1 THEN 2 ELSE 1

---------------------------------------------------------------------------
(* Arithmetic helpers *)

Max(a, b) == IF a >= b THEN a ELSE b
Min(a, b) == IF a <= b THEN a ELSE b

RECURSIVE Pow2(_)
Pow2(n) == IF n = 0 THEN 1 ELSE 2 * Pow2(n - 1)

RECURSIVE Gcd(_, _)
Gcd(a, b) == IF b = 0 THEN a ELSE Gcd(b, a % b)

---------------------------------------------------------------------------
(* Static data tables (data.py: POKEMON_DATA, MOVE_DATA, TYPE_CHART) *)

NoEffect == [e \in {} |-> 0]

MOVE_DATA ==
    [ Tackle      |-> [type |-> "Normal", category |-> "Physical", power |-> 40,
                       accuracy |-> 100, effect |-> NoEffect],
      QuickAttack |-> [type |-> "Normal", category |-> "Physical", power |-> 40,
                       accuracy |-> 100, effect |-> [priority |-> 1]],
      DoubleEdge  |-> [type |-> "Normal", category |-> "Physical", power |-> 120,
                       accuracy |-> 100, effect |-> [recoil |-> 25]],
      Toxic       |-> [type |-> "Poison", category |-> "Status", power |-> 0,
                       accuracy |-> 90, effect |-> [status |-> "poisoned"]],
      Lick        |-> [type |-> "Ghost", category |-> "Physical", power |-> 30,
                       accuracy |-> 100,
                       effect |-> [status |-> "paralyzed", chance |-> 30]],
      Ember       |-> [type |-> "Fire", category |-> "Special", power |-> 40,
                       accuracy |-> 100,
                       effect |-> [status |-> "burned", chance |-> 10]],
      Agility     |-> [type |-> "Psychic", category |-> "Status", power |-> 0,
                       accuracy |-> 100,
                       effect |-> [stat_boost |-> [speed |-> 2]]],
      Absorb      |-> [type |-> "Grass", category |-> "Special", power |-> 20,
                       accuracy |-> 100, effect |-> [drain |-> 50]],
      Recover     |-> [type |-> "Normal", category |-> "Status", power |-> 0,
                       accuracy |-> 100, effect |-> [heal |-> 50]] ]

MoveNames == DOMAIN MOVE_DATA

\* TYPE_CHART[move_type][defender_type], in halves; absent entries are 1.0
TYPE_CHART ==
    [ Normal |-> [Ghost |-> 0],
      Ghost  |-> [Normal |-> 0, Ghost |-> 4],
      Fire   |-> [Fire |-> 1],
      Poison |-> [Poison |-> 1, Ghost |-> 1] ]

POKEMON_DATA ==
    [ i \in 1..6 |->
        CASE i = 1 -> [name |-> "Rattata", types |-> <<"Normal">>,
                       base_stats |-> [hp |-> 30, attack |-> 56, defense |-> 35,
                                       sp_attack |-> 25, sp_defense |-> 35, speed |-> 72],
                       moves |-> <<"Tackle", "QuickAttack", "DoubleEdge", "Toxic">>]
          [] i = 2 -> [name |-> "Gastly", types |-> <<"Ghost", "Poison">>,
                       base_stats |-> [hp |-> 30, attack |-> 35, defense |-> 30,
                                       sp_attack |-> 100, sp_defense |-> 35, speed |-> 80],
                       moves |-> <<"Lick", "Toxic">>]
          [] i = 3 -> [name |-> "Charmander", types |-> <<"Fire">>,
                       base_stats |-> [hp |-> 39, attack |-> 52, defense |-> 43,
                                       sp_attack |-> 60, sp_defense |-> 50, speed |-> 165],
                       moves |-> <<"Ember", "Tackle", "Agility">>]
          [] i = 4 -> [name |-> "Pikachu", types |-> <<"Electric">>,
                       base_stats |-> [hp |-> 35, attack |-> 55, defense |-> 40,
                                       sp_attack |-> 50, sp_defense |-> 50, speed |-> 90],
                       moves |-> <<"QuickAttack", "Tackle">>]
          [] i = 5 -> [name |-> "Magnemite", types |-> <<"Electric", "Steel">>,
                       base_stats |-> [hp |-> 25, attack |-> 35, defense |-> 70,
                                       sp_attack |-> 95, sp_defense |-> 55, speed |-> 45],
                       moves |-> <<"Tackle">>]
          [] i = 6 -> [name |-> "Bulbasaur", types |-> <<"Grass", "Poison">>,
                       base_stats |-> [hp |-> 45, attack |-> 49, defense |-> 49,
                                       sp_attack |-> 65, sp_defense |-> 65, speed |-> 45],
                       moves |-> <<"Absorb", "Recover", "Tackle">>] ]

---------------------------------------------------------------------------
(* pokemon.py: class Pokemon *)

StatNames == {"attack", "defense", "sp_attack", "sp_defense", "speed", "accuracy", "evasion"}
Statuses == {"paralyzed", "poisoned", "burned", "asleep", "frozen"}

Range(s) == {s[i] : i \in DOMAIN s}

CalculateHp(base_hp, level) == ((2 * base_hp * level) \div 100) + level + 10

CalculateStat(base_stat, level) == ((2 * base_stat * level) \div 100) + 5

NewPokemon(pokemon_id, level) ==
    LET data == POKEMON_DATA[pokemon_id] IN
    [ id          |-> pokemon_id,
      types       |-> data.types,
      level       |-> level,
      moves       |-> SubSeq(data.moves, 1, Min(4, Len(data.moves))),
      max_hp      |-> CalculateHp(data.base_stats.hp, level),
      current_hp  |-> CalculateHp(data.base_stats.hp, level),
      attack      |-> CalculateStat(data.base_stats.attack, level),
      defense     |-> CalculateStat(data.base_stats.defense, level),
      sp_attack   |-> CalculateStat(data.base_stats.sp_attack, level),
      sp_defense  |-> CalculateStat(data.base_stats.sp_defense, level),
      speed       |-> CalculateStat(data.base_stats.speed, level),
      stat_stages |-> [s \in StatNames |-> 0],
      status      |-> "none" ]

\* IsFainted holding only below 0 HP
IsFaintedBelowZero(p) == p.current_hp < 0

IsFainted(p) == p.current_hp <= 0

\* int(base_value * multiplier): the stage multiplier is (2+s)/2 or 2/(2-s),
\* halved for a paralyzed speed or a burned attack
GetModifiedStat(p, stat_name) ==
    IF stat_name \notin {"attack", "defense", "sp_attack", "sp_defense", "speed"}
    THEN 1
    ELSE LET base_value == p[stat_name]
             stage == p.stat_stages[stat_name]
             num == IF stage >= 0 THEN 2 + stage ELSE 2
             den == IF stage >= 0 THEN 2 ELSE 2 - stage
             halved == \/ stat_name = "speed" /\ p.status = "paralyzed"
                       \/ stat_name = "attack" /\ p.status = "burned"
         IN (base_value * num) \div (den * (IF halved THEN 2 ELSE 1))

TakeDamageRet(p, damage) == Max(1, damage)

\* TakeDamage without the floor at 0
TakeDamageNoFloor(p, damage) ==
    [p EXCEPT !.current_hp = p.current_hp - Max(1, damage)]

\* TakeDamage with the two floors exchanged: max(0, damage) and max(1, hp - damage)
TakeDamageFloorsSwapped(p, damage) ==
    [p EXCEPT !.current_hp = Max(1, p.current_hp - Max(0, damage))]

TakeDamage(p, damage) ==
    [p EXCEPT !.current_hp = Max(0, p.current_hp - Max(1, damage))]

\* Heal without the cap at max_hp
HealNoCap(p, amount) ==
    IF IsFainted(p) THEN p
    ELSE [p EXCEPT !.current_hp = p.current_hp + amount]

Heal(p, amount) ==
    IF IsFainted(p) THEN p
    ELSE [p EXCEPT !.current_hp = Min(p.max_hp, p.current_hp + amount)]

HealRet(p, amount) == IF IsFainted(p) THEN 0 ELSE Heal(p, amount).current_hp - p.current_hp

\* ApplyStatusRet without the check for a status that is already present
ApplyStatusRetOverwrite(p, status) ==
    /\ ~(status = "paralyzed" /\ "Electric" \in Range(p.types))
    /\ ~(status = "poisoned" /\ ("Poison" \in Range(p.types) \/ "Steel" \in Range(p.types)))
    /\ ~(status = "burned" /\ "Fire" \in Range(p.types))

ApplyStatusRet(p, status) ==
    /\ p.status = "none"
    /\ ~(status = "paralyzed" /\ "Electric" \in Range(p.types))
    /\ ~(status = "poisoned" /\ ("Poison" \in Range(p.types) \/ "Steel" \in Range(p.types)))
    /\ ~(status = "burned" /\ "Fire" \in Range(p.types))

ApplyStatus(p, status) ==
    IF ApplyStatusRet(p, status) THEN [p EXCEPT !.status = status] ELSE p

\* ClampStage without the upper limit
ClampStageNoCeiling(stage) == Max(-6, stage)

ClampStage(stage) == Max(-6, Min(6, stage))

ModifyStatStage(p, stat, stages) ==
    IF stat \notin DOMAIN p.stat_stages THEN p
    ELSE [p EXCEPT !.stat_stages[stat] = ClampStage(p.stat_stages[stat] + stages)]

ModifyStatStageRet(p, stat, stages) ==
    IF stat \notin DOMAIN p.stat_stages THEN 0
    ELSE ModifyStatStage(p, stat, stages).stat_stages[stat] - p.stat_stages[stat]

---------------------------------------------------------------------------
(* player.py: class Player *)

TeamLen(pl) == Cardinality(DOMAIN pl.team)

NewPlayer(roster) ==
    [ team |-> [i \in 0..(Len(roster) - 1) |-> NewPokemon(roster[i + 1].id, roster[i + 1].level)],
      active_pokemon_index |-> 0,
      potions |-> 3 ]

HasActive(pl) == TeamLen(pl) > 0 /\ pl.active_pokemon_index < TeamLen(pl)

ActivePokemon(pl) == pl.team[pl.active_pokemon_index]

\* SwitchPokemonRet without the check that the target is not fainted
SwitchPokemonRetAnyTarget(pl, index) ==
    0 <= index /\ index < TeamLen(pl)

SwitchPokemonRet(pl, index) ==
    0 <= index /\ index < TeamLen(pl) /\ ~IsFainted(pl.team[index])

SwitchPokemon(pl, index) ==
    IF SwitchPokemonRet(pl, index) THEN [pl EXCEPT !.active_pokemon_index = index] ELSE pl

\* UsePotionRet without the check that a potion is left
UsePotionRetNoStock(pl, pokemon_index) ==
    /\ 0 <= pokemon_index /\ pokemon_index < TeamLen(pl)
    /\ ~IsFainted(pl.team[pokemon_index])
    /\ pl.team[pokemon_index].current_hp < pl.team[pokemon_index].max_hp

UsePotionRet(pl, pokemon_index) ==
    /\ pl.potions > 0
    /\ 0 <= pokemon_index /\ pokemon_index < TeamLen(pl)
    /\ ~IsFainted(pl.team[pokemon_index])
    /\ pl.team[pokemon_index].current_hp < pl.team[pokemon_index].max_hp

UsePotion(pl, pokemon_index) ==
    IF UsePotionRet(pl, pokemon_index)
    THEN LET pokemon == pl.team[pokemon_index]
             heal_amount == Min(20, pokemon.max_hp - pokemon.current_hp)
         IN [pl EXCEPT !.team[pokemon_index] = Heal(pokemon, heal_amount),
                       !.potions = pl.potions - 1]
    ELSE pl

HasUsablePokemon(pl) == \E i \in DOMAIN pl.team : ~IsFainted(pl.team[i])

---------------------------------------------------------------------------
(* battle.py: class Battle.  A battle value b is                            *)
(* [player, is_battle_over, winner, battle_log]; the operators return the  *)
(* battle after the method has run.                                        *)

Log(b, line) == [b EXCEPT !.battle_log = Append(b.battle_log, line)]

\* the random draws of one move execution
ChanceOutcomes(chance) ==
    IF chance >= 100 THEN {TRUE} ELSE IF chance <= 0 THEN {FALSE} ELSE BOOLEAN

MissOutcomes(accuracy) ==
    IF accuracy >= 100 THEN {FALSE} ELSE IF accuracy < 1 THEN {TRUE} ELSE BOOLEAN

EffectGet(effect, key, default) == IF key \in DOMAIN effect THEN effect[key] ELSE default

Rolls(attacker, move) ==
    [ skip : IF attacker.status \in {"paralyzed", "frozen"} THEN BOOLEAN ELSE {FALSE},
      miss : MissOutcomes(move.accuracy),
      variance : IF move.category \in {"Physical", "Special"} /\ move.power # 0
                 THEN Variance ELSE {100},
      crit : IF move.category \in {"Physical", "Special"} /\ move.power # 0
             THEN BOOLEAN ELSE {FALSE},
      status_roll : IF "status" \in DOMAIN move.effect
                    THEN ChanceOutcomes(EffectGet(move.effect, "chance", 100)) ELSE {FALSE},
      boost_roll : IF "stat_boost_chance" \in DOMAIN move.effect
                   THEN ChanceOutcomes(EffectGet(move.effect, "chance", 10)) ELSE {FALSE},
      drop_roll : IF "stat_drop_chance" \in DOMAIN move.effect
                  THEN ChanceOutcomes(EffectGet(move.effect, "chance", 10)) ELSE {FALSE} ]

NoRoll ==
    [skip |-> FALSE, miss |-> FALSE, variance |-> 100, crit |-> FALSE,
     status_roll |-> FALSE, boost_roll |-> FALSE, drop_roll |-> FALSE]

TypeEffectiveness(move_type, defender_type) ==
    IF move_type \in DOMAIN TYPE_CHART /\ defender_type \in DOMAIN TYPE_CHART[move_type]
    THEN TYPE_CHART[move_type][defender_type]
    ELSE 2

\* product of the chart values over the defender's types, in units of 1 / 2^Len(types)
RECURSIVE Effectiveness(_, _)
Effectiveness(move_type, types) ==
    IF types = <<>> THEN 1
    ELSE TypeEffectiveness(move_type, Head(types)) * Effectiveness(move_type, Tail(types))

EffectivenessLines(eff_num, eff_den, side) ==
    IF eff_num > eff_den THEN <<<<"super_effective", side>>>>
    ELSE IF eff_num < eff_den /\ eff_num > 0 THEN <<<<"not_very_effective", side>>>>
    ELSE IF eff_num = 0 THEN <<<<"no_effect", side>>>>
    ELSE <<>>

\* damage = ((2 * level / 5 + 2) * power * atk / def) / 50 + 2, then * 1.5 (STAB),
\* * effectiveness, * variance, * 1.5 (critical hit); max(1, int(damage))
\* DamageValue with the same-type bonus applied before the "+ 2"
DamageValueStabFirst(level, power, attack_stat, defense_stat, stab, eff_num, eff_den, variance, crit) ==
    LET eff_gcd == Gcd(eff_num, eff_den)
        var_gcd == Gcd(variance, 100)
        num == ((level + 5) * power * attack_stat * (IF stab THEN 3 ELSE 1)
                + 250 * defense_stat * (IF stab THEN 2 ELSE 1))
               * (eff_num \div eff_gcd)
               * (variance \div var_gcd) * (IF crit THEN 3 ELSE 1)
        den == 125 * defense_stat * (IF stab THEN 2 ELSE 1) * (eff_den \div eff_gcd)
               * (100 \div var_gcd) * (IF crit THEN 2 ELSE 1)
    IN Max(1, num \div den)

DamageValue(level, power, attack_stat, defense_stat, stab, eff_num, eff_den, variance, crit) ==
    LET eff_gcd == Gcd(eff_num, eff_den)
        var_gcd == Gcd(variance, 100)
        num == ((level + 5) * power * attack_stat + 250 * defense_stat)
               * (IF stab THEN 3 ELSE 1) * (eff_num \div eff_gcd)
               * (variance \div var_gcd) * (IF crit THEN 3 ELSE 1)
        den == 125 * defense_stat * (IF stab THEN 2 ELSE 1) * (eff_den \div eff_gcd)
               * (100 \div var_gcd) * (IF crit THEN 2 ELSE 1)
    IN Max(1, num \div den)

\* [damage, lines]: the return value and the lines appended to the log
CalculateDamage(attacker, defender, move, r, side) ==
    IF move.power = 0 THEN [damage |-> 0, lines |-> <<>>]
    ELSE LET physical == move.category = "Physical"
             attack_stat == GetModifiedStat(attacker, IF physical THEN "attack" ELSE "sp_attack")
             defense_stat == GetModifiedStat(defender, IF physical THEN "defense" ELSE "sp_defense")
             eff_num == Effectiveness(move.type, defender.types)
             eff_den == Pow2(Len(defender.types))
         IN [ damage |-> DamageValue(attacker.level, move.power, attack_stat, defense_stat,
                                     move.type \in Range(attacker.types),
                                     eff_num, eff_den, r.variance, r.crit),
              lines |-> EffectivenessLines(eff_num, eff_den, side)
                        \o (IF r.crit THEN <<<<"critical", side>>>> ELSE <<>>) ]

\* for stat, stages in changes.items(): p.modify_stat_stage(stat, sign * stages),
\* with one log line per stage that actually changed.  e is [p, lines].
RECURSIVE ModifyStages(_, _, _, _, _)
ModifyStages(e, changes, todo, sign, line) ==
    IF todo = {} THEN e
    ELSE LET stat == CHOOSE s \in todo : TRUE
             changed == ModifyStatStageRet(e.p, stat, sign * changes[stat]) # 0
         IN ModifyStages([p |-> ModifyStatStage(e.p, stat, sign * changes[stat]),
                          lines |-> IF changed THEN Append(e.lines, line) ELSE e.lines],
                         changes, todo \ {stat}, sign, line)

StatChange(p, effect, key, sign, line) ==
    LET changes == effect[key] IN
    ModifyStages([p |-> p, lines |-> <<>>], changes, DOMAIN changes, sign, line)

\* _apply_move_effects on the two Pokemon objects: [att, def, lines] after it
ApplyMoveEffects(move, attacker, defender, r, side) ==
    LET effect == move.effect
        opp == Other(side)
        \* status infliction
        inflict == "status" \in DOMAIN effect /\ r.status_roll
                   /\ ApplyStatusRet(defender, effect.status)
        d1 == IF inflict THEN ApplyStatus(defender, effect.status) ELSE defender
        l1 == IF inflict THEN <<<<"status", opp>>>> ELSE <<>>
        \* guaranteed stat changes
        sb == IF "stat_boost" \in DOMAIN effect
              THEN StatChange(attacker, effect, "stat_boost", 1, <<"stat_changed", side>>)
              ELSE [p |-> attacker, lines |-> <<>>]
        sd == IF "stat_drop" \in DOMAIN effect
              THEN StatChange(d1, effect, "stat_drop", -1, <<"stat_fell", opp>>)
              ELSE [p |-> d1, lines |-> <<>>]
        \* stat changes with a chance
        sbc == IF "stat_boost_chance" \in DOMAIN effect /\ r.boost_roll
               THEN StatChange(sb.p, effect, "stat_boost_chance", 1, <<"stat_rose", side>>)
               ELSE [p |-> sb.p, lines |-> <<>>]
        sdc == IF "stat_drop_chance" \in DOMAIN effect /\ r.drop_roll
               THEN StatChange(sd.p, effect, "stat_drop_chance", -1, <<"stat_fell", opp>>)
               ELSE [p |-> sd.p, lines |-> <<>>]
        d2 == sdc.p
        \* healing
        heal_amount == IF "heal" \in DOMAIN effect
                       THEN (sbc.p.max_hp * effect.heal) \div 100 ELSE 0
        a3 == IF "heal" \in DOMAIN effect THEN Heal(sbc.p, heal_amount) ELSE sbc.p
        l3 == IF "heal" \in DOMAIN effect /\ HealRet(sbc.p, heal_amount) > 0
              THEN <<<<"restored", side>>>> ELSE <<>>
        \* drain
        damage_dealt == Min(d2.max_hp - d2.current_hp, move.power)
        draining == "drain" \in DOMAIN effect /\ ~IsFainted(d2)
        drain_amount == IF draining THEN (damage_dealt * effect.drain) \div 100 ELSE 0
        a4 == IF draining THEN Heal(a3, drain_amount) ELSE a3
        l4 == IF draining /\ HealRet(a3, drain_amount) > 0
              THEN <<<<"restored", side>>>> ELSE <<>>
        \* recoil
        recoil_damage == IF "recoil" \in DOMAIN effect
                         THEN (damage_dealt * effect.recoil) \div 100 ELSE 0
        a5 == IF recoil_damage > 0 THEN TakeDamage(a4, recoil_damage) ELSE a4
        l5 == IF recoil_damage > 0
              THEN <<<<"recoil", side>>>>
                   \o (IF IsFainted(a5) THEN <<<<"fainted_recoil", side>>>> ELSE <<>>)
              ELSE <<>>
    IN [ att |-> a5, def |-> d2,
         lines |-> l1 \o sb.lines \o sd.lines \o sbc.lines \o sdc.lines \o l3 \o l4 \o l5 ]

SetActive(b, side, p) ==
    [b EXCEPT !.player[side].team[b.player[side].active_pokemon_index] = p]

ExecuteMove(b, side, move_name, r) ==
    LET opp == Other(side)
        attacker == ActivePokemon(b.player[side])
        defender == ActivePokemon(b.player[opp])
    IN
    IF ~HasActive(b.player[side]) \/ IsFainted(attacker) THEN b
    ELSE IF ~HasActive(b.player[opp]) \/ IsFainted(defender) THEN b
    ELSE IF move_name \notin MoveNames \/ move_name \notin Range(attacker.moves)
    THEN Log(b, <<"unknown_move", side>>)
    ELSE
    LET move == MOVE_DATA[move_name]
        b1 == Log(b, <<"used", side>>)
    IN
    IF attacker.status = "paralyzed" /\ r.skip THEN Log(b1, <<"is_paralyzed", side>>)
    ELSE IF attacker.status = "frozen" /\ r.skip THEN Log(b1, <<"is_frozen", side>>)
    ELSE IF attacker.status = "asleep" THEN Log(b1, <<"is_asleep", side>>)
    ELSE IF move.accuracy < 100 /\ r.miss THEN Log(b1, <<"missed", side>>)
    ELSE IF move.category \in {"Physical", "Special"}
    THEN LET calc == CalculateDamage(attacker, defender, move, r, side)
             hit == TakeDamage(defender, calc.damage)
             eff == ApplyMoveEffects(move, attacker, hit, r, side)
             actual_damage == TakeDamageRet(defender, calc.damage)
             lines == calc.lines \o <<<<"took_damage", opp, actual_damage>>>>
                      \o (IF IsFainted(hit) THEN <<<<"fainted", opp>>>> ELSE <<>>)
                      \o eff.lines
             b2 == SetActive(SetActive(b1, opp, eff.def), side, eff.att)
         IN [b2 EXCEPT !.battle_log = b1.battle_log \o lines]
    ELSE IF move.category = "Status"
    THEN LET eff == ApplyMoveEffects(move, attacker, defender, r, side)
             b2 == SetActive(SetActive(b1, opp, eff.def), side, eff.att)
         IN [b2 EXCEPT !.battle_log = b1.battle_log \o eff.lines]
    ELSE b1

ExecuteSwitch(b, side, pokemon_index) ==
    IF SwitchPokemonRet(b.player[side], pokemon_index)
    THEN [b EXCEPT !.player[side] = SwitchPokemon(b.player[side], pokemon_index),
                   !.battle_log = b.battle_log \o <<<<"withdrew", side>>, <<"sent_out", side>>>>]
    ELSE Log(b, <<"switch_failed", side>>)

ExecuteItem(b, side, item, target_index) ==
    IF item # "potion" THEN b
    ELSE IF UsePotionRet(b.player[side], target_index)
    THEN [b EXCEPT !.player[side] = UsePotion(b.player[side], target_index),
                   !.battle_log = b.battle_log \o <<<<"used_potion", side>>, <<"restored", side>>>>]
    ELSE Log(b, <<"potion_failed", side>>)

ExecuteAction(b, side, action, r) ==
    IF action.type = "move" THEN ExecuteMove(b, side, action.move, r)
    ELSE IF action.type = "switch" THEN ExecuteSwitch(b, side, action.pokemon_index)
    ELSE IF action.type = "item" THEN ExecuteItem(b, side, action.item, action.target_index)
    ELSE b

\* ApplyStatusDamage with the poison fraction (1/8) used for a burn as well
ApplyStatusDamageEighth(b, side) ==
    LET pokemon == ActivePokemon(b.player[side])
        hurt == TakeDamage(pokemon, Max(1, pokemon.max_hp \div 8))
    IN IF pokemon.status \in {"burned", "poisoned"}
       THEN [SetActive(b, side, hurt) EXCEPT
                !.battle_log = b.battle_log \o <<<<pokemon.status, side>>>>
                               \o (IF IsFainted(hurt) THEN <<<<"fainted", side>>>> ELSE <<>>)]
       ELSE b

ApplyStatusDamage(b, side) ==
    LET pokemon == ActivePokemon(b.player[side])
        fraction == IF pokemon.status = "burned" THEN 16 ELSE 8
        hurt == TakeDamage(pokemon, Max(1, pokemon.max_hp \div fraction))
    IN IF pokemon.status \in {"burned", "poisoned"}
       THEN [SetActive(b, side, hurt) EXCEPT
                !.battle_log = b.battle_log \o <<<<pokemon.status, side>>>>
                               \o (IF IsFainted(hurt) THEN <<<<"fainted", side>>>> ELSE <<>>)]
       ELSE b

EndOfTurnSide(b, side) ==
    IF HasActive(b.player[side]) /\ ~IsFainted(ActivePokemon(b.player[side]))
    THEN ApplyStatusDamage(b, side)
    ELSE b

ApplyEndOfTurnEffects(b) == EndOfTurnSide(EndOfTurnSide(b, 1), 2)

\* CheckBattleEnd without the draw branch
CheckBattleEndNoDraw(b) ==
    IF ~HasUsablePokemon(b.player[1])
    THEN [b EXCEPT !.is_battle_over = TRUE, !.winner = 2,
                   !.battle_log = Append(b.battle_log, <<"won", 2>>)]
    ELSE IF ~HasUsablePokemon(b.player[2])
    THEN [b EXCEPT !.is_battle_over = TRUE, !.winner = 1,
                   !.battle_log = Append(b.battle_log, <<"won", 1>>)]
    ELSE b

CheckBattleEnd(b) ==
    LET p1_has_usable == HasUsablePokemon(b.player[1])
        p2_has_usable == HasUsablePokemon(b.player[2])
    IN IF ~p1_has_usable /\ ~p2_has_usable
       THEN [b EXCEPT !.is_battle_over = TRUE, !.winner = 0,
                      !.battle_log = Append(b.battle_log, <<"draw">>)]
       ELSE IF ~p1_has_usable
       THEN [b EXCEPT !.is_battle_over = TRUE, !.winner = 2,
                      !.battle_log = Append(b.battle_log, <<"won", 2>>)]
       ELSE IF ~p2_has_usable
       THEN [b EXCEPT !.is_battle_over = TRUE, !.winner = 1,
                      !.battle_log = Append(b.battle_log, <<"won", 1>>)]
       ELSE b

MovePriority(action) ==
    IF action.move \in MoveNames
    THEN EffectGet(MOVE_DATA[action.move].effect, "priority", 0)
    ELSE 0

Entry(side, action) == [side |-> side, action |-> action]

\* DetermineActionOrder with the switch/item rule applied to player 1 only
DetermineActionOrderOneSided(b, player1_action, player2_action) ==
    LET e1 == Entry(1, player1_action)
        e2 == Entry(2, player2_action)
        t1 == player1_action.type
        t2 == player2_action.type
        p1_speed == GetModifiedStat(ActivePokemon(b.player[1]), "speed")
        p2_speed == GetModifiedStat(ActivePokemon(b.player[2]), "speed")
    IN
    IF t1 = "pass" THEN {<<e2>>}
    ELSE IF t2 = "pass" THEN {<<e1>>}
    ELSE IF t1 \in {"switch", "item"} /\ t2 = "move" THEN {<<e1, e2>>}
    ELSE IF t1 = t2
    THEN IF t1 = "move" /\ MovePriority(player1_action) # MovePriority(player2_action)
         THEN IF MovePriority(player1_action) > MovePriority(player2_action)
              THEN {<<e1, e2>>} ELSE {<<e2, e1>>}
         ELSE IF p1_speed > p2_speed THEN {<<e1, e2>>}
         ELSE IF p2_speed > p1_speed THEN {<<e2, e1>>}
         ELSE {<<e1, e2>>, <<e2, e1>>}
    ELSE {<<e1, e2>>}

\* DetermineActionOrder with a speed tie always resolved in favour of player 1
DetermineActionOrderTieToFirst(b, player1_action, player2_action) ==
    LET e1 == Entry(1, player1_action)
        e2 == Entry(2, player2_action)
        t1 == player1_action.type
        t2 == player2_action.type
        p1_speed == GetModifiedStat(ActivePokemon(b.player[1]), "speed")
        p2_speed == GetModifiedStat(ActivePokemon(b.player[2]), "speed")
    IN
    IF t1 = "pass" THEN {<<e2>>}
    ELSE IF t2 = "pass" THEN {<<e1>>}
    ELSE IF t1 \in {"switch", "item"} /\ t2 = "move" THEN {<<e1, e2>>}
    ELSE IF t2 \in {"switch", "item"} /\ t1 = "move" THEN {<<e2, e1>>}
    ELSE IF t1 = t2
    THEN IF t1 = "move" /\ MovePriority(player1_action) # MovePriority(player2_action)
         THEN IF MovePriority(player1_action) > MovePriority(player2_action)
              THEN {<<e1, e2>>} ELSE {<<e2, e1>>}
         ELSE IF p2_speed > p1_speed THEN {<<e2, e1>>}
         ELSE {<<e1, e2>>}
    ELSE {<<e1, e2>>}

\* the set of lists _determine_action_order can return (two on a speed tie)
DetermineActionOrder(b, player1_action, player2_action) ==
    LET e1 == Entry(1, player1_action)
        e2 == Entry(2, player2_action)
        t1 == player1_action.type
        t2 == player2_action.type
        p1_speed == IF HasActive(b.player[1])
                    THEN GetModifiedStat(ActivePokemon(b.player[1]), "speed") ELSE 0
        p2_speed == IF HasActive(b.player[2])
                    THEN GetModifiedStat(ActivePokemon(b.player[2]), "speed") ELSE 0
    IN
    IF t1 = "pass" THEN {<<e2>>}
    ELSE IF t2 = "pass" THEN {<<e1>>}
    ELSE IF t1 \in {"switch", "item"} /\ t2 = "move" THEN {<<e1, e2>>}
    ELSE IF t2 \in {"switch", "item"} /\ t1 = "move" THEN {<<e2, e1>>}
    ELSE IF t1 = t2
    THEN IF t1 = "move" /\ MovePriority(player1_action) # MovePriority(player2_action)
         THEN IF MovePriority(player1_action) > MovePriority(player2_action)
              THEN {<<e1, e2>>} ELSE {<<e2, e1>>}
         ELSE IF p1_speed > p2_speed THEN {<<e1, e2>>}
         ELSE IF p2_speed > p1_speed THEN {<<e2, e1>>}
         ELSE {<<e1, e2>>, <<e2, e1>>}
    ELSE {<<e1, e2>>}

\* LoopContinues without the break on is_battle_over
LoopContinuesNoBreak(b, acts) == acts # <<>>

\* execute_turn's loop: another action is executed only while the battle is not over
LoopContinues(b, acts) == acts # <<>> /\ ~b.is_battle_over

\* LoopBody without the battle-end check after the action
LoopBodyNoCheck(b, entry, r) == ExecuteAction(b, entry.side, entry.action, r)

\* one iteration of the loop: the action, then the battle-end check
LoopBody(b, entry, r) == CheckBattleEnd(ExecuteAction(b, entry.side, entry.action, r))

\* EndOfTurn with the battle-end check made after each side's status damage
EndOfTurnCheckEachSide(b) ==
    IF b.is_battle_over THEN b
    ELSE LET b1 == CheckBattleEnd(EndOfTurnSide(b, 1))
         IN IF b1.is_battle_over THEN b1 ELSE CheckBattleEnd(EndOfTurnSide(b1, 2))

\* the end-of-turn part of execute_turn
EndOfTurn(b) ==
    IF ~b.is_battle_over THEN CheckBattleEnd(ApplyEndOfTurnEffects(b)) ELSE b

---------------------------------------------------------------------------
(* network.py: PokemonServer._handle_fainted_pokemon, for one side.  The    *)
(* reply is NoReply (no reply, or one without an action) or an action.     *)

NoReply == [type |-> "none"]

\* FirstUsable choosing the last non-fainted Pokemon of the team
LastUsable(pl) ==
    CHOOSE i \in DOMAIN pl.team :
        /\ ~IsFainted(pl.team[i])
        /\ \A j \in DOMAIN pl.team : ~IsFainted(pl.team[j]) => i >= j

FirstUsable(pl) ==
    CHOOSE i \in DOMAIN pl.team :
        /\ ~IsFainted(pl.team[i])
        /\ \A j \in DOMAIN pl.team : ~IsFainted(pl.team[j]) => i <= j

\* NeedsSwitch without the test of is_battle_over
NeedsSwitchAfterEnd(b, side) ==
    /\ HasActive(b.player[side])
    /\ IsFainted(ActivePokemon(b.player[side]))
    /\ HasUsablePokemon(b.player[side])

NeedsSwitch(b, side) ==
    /\ ~b.is_battle_over
    /\ HasActive(b.player[side])
    /\ IsFainted(ActivePokemon(b.player[side]))
    /\ HasUsablePokemon(b.player[side])

HandleFaintedPokemon(b, side, reply) ==
    IF ~NeedsSwitch(b, side) THEN b
    ELSE IF reply = NoReply \/ reply.type # "switch"
    THEN [b EXCEPT !.player[side] = SwitchPokemon(b.player[side], FirstUsable(b.player[side]))]
    ELSE [b EXCEPT !.player[side] = SwitchPokemon(b.player[side], reply.pokemon_index)]

---------------------------------------------------------------------------
(* The battle as a state machine *)

\* team replies of the two sides: lists of {id, level}
Rosters ==
    { <<  <<[id |-> 1, level |-> 1]>>,  <<[id |-> 1, level |-> 1]>>  >>,
      <<  <<[id |-> 1, level |-> 1], [id |-> 2, level |-> 1]>>,
          <<[id |-> 3, level |-> 1]>>  >> }

\* roster indexes a side may name: negative, in range and one past the end
Indexes(pl) == -1..TeamLen(pl)

\* moves a side may name: those of its active Pokemon, a priority move it may
\* not know, and a move that is not in MOVE_DATA
SubmittedMoves(pl) == Range(ActivePokemon(pl).moves) \cup {"QuickAttack", "Splash"}

ActionValues(pl) ==
    {[type |-> "pass"]}
    \cup {[type |-> "move", move |-> m] : m \in SubmittedMoves(pl)}
    \cup {[type |-> "switch", pokemon_index |-> i] : i \in Indexes(pl)}
    \cup {[type |-> "item", item |-> "potion", target_index |-> i] : i \in Indexes(pl)}
    \cup {[type |-> "item", item |-> "berry", target_index |-> 0]}

Battle ==
    [player |-> player, is_battle_over |-> is_battle_over, winner |-> winner,
     battle_log |-> battle_log]

SetBattle(b) ==
    /\ player' = b.player
    /\ is_battle_over' = b.is_battle_over
    /\ winner' = b.winner
    /\ battle_log' = b.battle_log

NoMon == [op |-> "none"]

\* no battle loop is running
NoReplies == [turn |-> 0]
ServerUnused == run = "unused" /\ replies = NoReplies /\ wire = <<>>

\* no server is running
NetUnused ==
    /\ battles = <<>> /\ clients = <<>> /\ worker = <<>> /\ conn = <<>>
    /\ link = <<>>
NoDmg == [op |-> "none"]

BattleInit ==
    /\ \E rosters \in Rosters :
          player = [side \in Sides |-> NewPlayer(rosters[side])]
    /\ current_turn = 0
    /\ is_battle_over = FALSE
    /\ winner = 0
    /\ battle_log = <<>>
    /\ pc = "idle"
    /\ actions = <<>>

Init ==
    /\ BattleInit
    /\ mon = NoMon /\ ret = NoMon /\ calls = 0
    /\ dmg = NoDmg /\ ai_difficulty = "none"
    /\ ServerUnused /\ NetUnused

\* execute_turn, up to the loop: count the turn, clear the log, order the actions
ExecuteTurnBegin(player1_action, player2_action) ==
    /\ pc = "idle"
    /\ current_turn < MaxTurns
    /\ current_turn' = current_turn + 1
    /\ actions' \in DetermineActionOrder([Battle EXCEPT !.battle_log = <<>>],
                                         player1_action, player2_action)
    /\ battle_log' = <<>>
    /\ pc' = "acting"
    /\ UNCHANGED <<player, is_battle_over, winner, mon, ret, calls, dmg, ai_difficulty, serverVars, netVars>>

RollsFor(b, entry) ==
    IF /\ entry.action.type = "move"
       /\ entry.action.move \in MoveNames
       /\ HasActive(b.player[entry.side])
    THEN Rolls(ActivePokemon(b.player[entry.side]), MOVE_DATA[entry.action.move])
    ELSE {NoRoll}

\* execute_turn, one iteration of the loop
ExecuteNextAction ==
    /\ pc = "acting"
    /\ LoopContinues(Battle, actions)
    /\ \E r \in RollsFor(Battle, Head(actions)) :
          SetBattle(LoopBody(Battle, Head(actions), r))
    /\ actions' = Tail(actions)
    /\ UNCHANGED <<current_turn, pc, mon, ret, calls, dmg, ai_difficulty, serverVars, netVars>>

\* execute_turn, from the end of the loop to the return
ExecuteTurnEnd ==
    /\ pc = "acting"
    /\ ~LoopContinues(Battle, actions)
    /\ SetBattle(EndOfTurn(Battle))
    /\ actions' = <<>>
    /\ pc' = "idle"
    /\ UNCHANGED <<current_turn, mon, ret, calls, dmg, ai_difficulty, serverVars, netVars>>

\* the coordinator's forced switch after a turn
ForcedSwitch(side, reply) ==
    /\ pc = "idle"
    /\ current_turn > 0
    /\ NeedsSwitch(Battle, side)
    /\ SetBattle(HandleFaintedPokemon(Battle, side, reply))
    /\ UNCHANGED <<current_turn, pc, actions, mon, ret, calls, dmg, ai_difficulty, serverVars, netVars>>

Next ==
    \/ \E a1 \in ActionValues(player[1]), a2 \in ActionValues(player[2]) :
          ExecuteTurnBegin(a1, a2)
    \/ ExecuteNextAction
    \/ ExecuteTurnEnd
    \/ \E side \in Sides : \E reply \in {NoReply} \cup ActionValues(player[side]) :
          ForcedSwitch(side, reply)

Spec == Init /\ [][Next]_vars

\* execute_turn's loop from the battle b with the actions acts still to run,
\* then the end-of-turn part: the battles it may end in
RECURSIVE RunLoop(_, _)
RunLoop(b, acts) ==
    IF ~LoopContinues(b, acts) THEN {EndOfTurn(b)}
    ELSE UNION {RunLoop(LoopBody(b, Head(acts), r), Tail(acts)) :
                  r \in RollsFor(b, Head(acts))}

\* execute_turn as a whole: the battles it may end in
ExecuteTurn(b, player1_action, player2_action) ==
    UNION {RunLoop([b EXCEPT !.battle_log = <<>>], acts) :
             acts \in DetermineActionOrder([b EXCEPT !.battle_log = <<>>],
                                           player1_action, player2_action)}

\* the actions submitted in the battles of TurnSpec: the active Pokemon's
\* first move, a move that no Pokemon has, a switch to the second Pokemon, a
\* potion for the first
TurnActions(pl) ==
    {[type |-> "move", move |-> ActivePokemon(pl).moves[1]],
     [type |-> "move", move |-> "Splash"],
     [type |-> "switch", pokemon_index |-> 1],
     [type |-> "item", item |-> "potion", target_index |-> 0]}

TurnNext ==
    \/ \E a1 \in TurnActions(player[1]), a2 \in TurnActions(player[2]) :
          ExecuteTurnBegin(a1, a2)
    \/ ExecuteNextAction
    \/ ExecuteTurnEnd
    \/ \E side \in Sides : ForcedSwitch(side, NoReply)

\* battles in which each side submits one of a few actions per turn
TurnSpec == Init /\ [][TurnNext]_vars

---------------------------------------------------------------------------
(* network.py: PokemonServer._run_battle, the battle loop of one match.     *)
(* Side 1 is the host, side 2 the challenger.  A step runs from one        *)
(* receive_data to the next; execute_turn runs as the steps above.         *)

\* teams of the two sides at the start of _run_battle
ServerRosters ==
    { <<  <<[id |-> 1, level |-> 1], [id |-> 2, level |-> 1], [id |-> 1, level |-> 1]>>,
          <<[id |-> 3, level |-> 1], [id |-> 1, level |-> 1]>>  >> }

\* what receive_data may return for a request: nothing (or a message without
\* "action"), a move of the active Pokemon, or a switch to any index
ServerReplies(pl) ==
    {NoReply}
    \cup {[type |-> "move", move |-> m] : m \in Range(ActivePokemon(pl).moves)}
    \cup {[type |-> "switch", pokemon_index |-> i] : i \in Indexes(pl)}

Send(side, msg) == [ev |-> "send", side |-> side, msg |-> msg]
Recv(side, data) == [ev |-> "recv", side |-> side, data |-> data]

RequestAction == [type |-> "request_action"]
RequestSwitch == [type |-> "request_switch"]

\* TurnResults with the battle_over flag of the start of the turn
TurnResultsStale(b) ==
    [type |-> "turn_results", log |-> b.battle_log, battle_over |-> FALSE]

TurnResults(b) ==
    [type |-> "turn_results", log |-> b.battle_log, battle_over |-> b.is_battle_over]

BattleOver(b) == [type |-> "battle_over", winner |-> b.winner]

\* receive_data returning None because the peer has gone
Closed == [type |-> "closed"]

\* what receive_data returns on the socket of `side`
RepliesFrom(side) ==
    IF conn[side] = "open" THEN ServerReplies(player[side]) ELSE {Closed}

\* _get_player_action: a missing reply is a pass
PlayerAction(reply) == IF reply \in {NoReply, Closed} THEN [type |-> "pass"] ELSE reply

\* the key of the match in self.battles
BattleId == "1000"

\* self.battles at the start of _run_battle: the match is in progress
BattlesInProgress ==
    BattleId :> [host_socket |-> 1, challenger_socket |-> 2, status |-> "in_progress"]

\* the server state around one running match, both peers connected
MatchInit ==
    /\ run = "loop" /\ replies = NoReplies /\ wire = <<>>
    /\ battles = BattlesInProgress
    /\ conn = [side \in Sides |-> "open"]
    /\ clients = <<>> /\ worker = <<>> /\ link = <<>>

ServerInit ==
    /\ \E rosters \in ServerRosters :
          player = [side \in Sides |-> NewPlayer(rosters[side])]
    /\ current_turn = 0
    /\ is_battle_over = FALSE
    /\ winner = 0
    /\ battle_log = <<>>
    /\ pc = "idle"
    /\ actions = <<>>
    /\ mon = NoMon /\ ret = NoMon /\ calls = 0
    /\ dmg = NoDmg /\ ai_difficulty = "none"
    /\ MatchInit

\* while not battle.is_battle_over: ... send request_action to the host
RequestHostAction ==
    /\ run = "loop"
    /\ ~is_battle_over
    /\ current_turn < MaxTurns
    /\ wire' = <<Send(1, RequestAction)>>
    /\ run' = "await_host"
    /\ UNCHANGED <<battleVars, monVars, dmg, ai_difficulty, replies, netVars>>

\* the host's reply arrives (or is missing); send request_action to the challenger
ReceiveHostAction(reply) ==
    /\ run = "await_host"
    /\ replies' = [turn |-> current_turn + 1, host |-> PlayerAction(reply)]
    /\ wire' = wire \o <<Recv(1, reply), Send(2, RequestAction)>>
    /\ run' = "await_challenger"
    /\ UNCHANGED <<battleVars, monVars, dmg, ai_difficulty, netVars>>

\* the challenger's reply arrives (or is missing)
ReceiveChallengerAction(reply) ==
    /\ run = "await_challenger"
    /\ replies' = [turn |-> replies.turn, host |-> replies.host,
                   challenger |-> PlayerAction(reply)]
    /\ wire' = Append(wire, Recv(2, reply))
    /\ run' = "execute"
    /\ UNCHANGED <<battleVars, monVars, dmg, ai_difficulty, netVars>>

\* turn_log = battle.execute_turn(host_action, challenger_action)
ServerExecuteTurn ==
    /\ run = "execute"
    /\ replies.turn = current_turn + 1
    /\ ExecuteTurnBegin(replies.host, replies.challenger)

\* _handle_fainted_pokemon for the sides in `todo`, up to its first receive_data:
\* [run, wire] after the request_switch it sends, if any
RequestSwitches(b, todo, w) ==
    IF 1 \in todo /\ NeedsSwitch(b, 1)
    THEN [run |-> "await_switch_host", wire |-> Append(w, Send(1, RequestSwitch))]
    ELSE IF 2 \in todo /\ NeedsSwitch(b, 2)
    THEN [run |-> "await_switch_challenger", wire |-> Append(w, Send(2, RequestSwitch))]
    ELSE [run |-> "loop", wire |-> w]

\* send turn_results to both sides, then handle the fainted Pokemon
SendTurnResults ==
    /\ run = "execute"
    /\ pc = "idle"
    /\ replies.turn = current_turn
    /\ LET w == wire \o <<Send(1, TurnResults(Battle)), Send(2, TurnResults(Battle))>>
           next == RequestSwitches(Battle, {1, 2}, w)
       IN run' = next.run /\ wire' = next.wire
    /\ UNCHANGED <<battleVars, monVars, dmg, ai_difficulty, replies, netVars>>

\* the reply to a request_switch arrives (or is missing)
ReceiveSwitch(side, reply) ==
    /\ run = IF side = 1 THEN "await_switch_host" ELSE "await_switch_challenger"
    /\ LET b == HandleFaintedPokemon(Battle, side, reply)
           next == RequestSwitches(b, {2} \ {side}, Append(wire, Recv(side, reply)))
       IN /\ SetBattle(b)
          /\ run' = next.run /\ wire' = next.wire
    /\ UNCHANGED <<current_turn, pc, actions, monVars, dmg, ai_difficulty, replies, netVars>>

\* the loop ends: _end_battle sends battle_over to both sides, marks the
\* match completed and starts the cleanup thread
EndBattle ==
    /\ run = "loop"
    /\ is_battle_over
    /\ BattleId \in DOMAIN battles
    /\ wire' = wire \o <<Send(1, BattleOver(Battle)), Send(2, BattleOver(Battle))>>
    /\ battles' = [battles EXCEPT ![BattleId].status = "completed"]
    /\ run' = "done"
    /\ UNCHANGED <<battleVars, monVars, dmg, ai_difficulty, replies, clients, worker, conn, link>>

\* the cleanup thread of _end_battle, once its sleep is over
Cleanup ==
    /\ run = "done"
    /\ battles' = [id \in DOMAIN battles \ {BattleId} |-> battles[id]]
    /\ run' = "cleaned"
    /\ UNCHANGED <<battleVars, monVars, dmg, ai_difficulty, replies, wire, clients, worker, conn, link>>

ServerNext ==
    \/ RequestHostAction
    \/ \E reply \in RepliesFrom(1) : ReceiveHostAction(reply)
    \/ \E reply \in RepliesFrom(2) : ReceiveChallengerAction(reply)
    \/ ServerExecuteTurn
    \/ ExecuteNextAction
    \/ ExecuteTurnEnd
    \/ SendTurnResults
    \/ \E side \in Sides : \E reply \in RepliesFrom(side) :
          ReceiveSwitch(side, reply)
    \/ EndBattle
    \/ Cleanup

ServerSpec == ServerInit /\ [][ServerNext]_vars

\* steps the coordinator takes without waiting for a peer: the return from
\* execute_turn, the sends after it, the end of the match and the cleanup
\* thread
ServerFairness ==
    /\ WF_vars(ExecuteTurnEnd)
    /\ WF_vars(SendTurnResults) /\ WF_vars(EndBattle) /\ WF_vars(Cleanup)

---------------------------------------------------------------------------
(* The battle loop of a short match, with the fairness of the coordinator's *)
(* own steps                                                               *)

ShortMatchRosters ==
    { <<  <<[id |-> 1, level |-> 1]>>,
          <<[id |-> 3, level |-> 1], [id |-> 1, level |-> 1]>>  >> }

ShortMatchInit ==
    /\ \E rosters \in ShortMatchRosters :
          player = [side \in Sides |-> NewPlayer(rosters[side])]
    /\ current_turn = 0
    /\ is_battle_over = FALSE
    /\ winner = 0
    /\ battle_log = <<>>
    /\ pc = "idle"
    /\ actions = <<>>
    /\ mon = NoMon /\ ret = NoMon /\ calls = 0
    /\ dmg = NoDmg /\ ai_difficulty = "none"
    /\ MatchInit

ShortMatchSpec == ShortMatchInit /\ [][ServerNext]_vars /\ ServerFairness

---------------------------------------------------------------------------
(* The battle loop of a short match whose peers may disconnect at any time *)

\* the peer of `side` closes its connection or is cut off
Disconnect(side) ==
    /\ run \notin {"done", "cleaned"}
    /\ conn[side] = "open"
    /\ conn' = [conn EXCEPT ![side] = "lost"]
    /\ UNCHANGED <<battleVars, monVars, dmg, ai_difficulty, serverVars, battles, clients, worker, link>>

LossyNext ==
    \/ ServerNext
    \/ \E side \in Sides : Disconnect(side)

LossySpec == ShortMatchInit /\ [][LossyNext]_vars

---------------------------------------------------------------------------
(* Method-level specification of Pokemon: calls on one Pokemon object *)

BattleUnused ==
    /\ player = <<>>
    /\ current_turn = 0
    /\ is_battle_over = FALSE
    /\ winner = 0
    /\ battle_log = <<>>
    /\ pc = "unused"
    /\ actions = <<>>

MonInit ==
    /\ BattleUnused
    /\ \E pokemon_id \in DOMAIN POKEMON_DATA : mon = NewPokemon(pokemon_id, 1)
    /\ ret = NoMon
    /\ calls = 0
    /\ dmg = NoDmg /\ ai_difficulty = "none"
    /\ ServerUnused /\ NetUnused

CallModifyStatStage(stat, stages) ==
    /\ calls < MaxCalls
    /\ calls' = calls + 1
    /\ mon' = ModifyStatStage(mon, stat, stages)
    /\ ret' = [op |-> "modify_stat_stage", stat |-> stat, stages |-> stages,
               value |-> ModifyStatStageRet(mon, stat, stages)]
    /\ UNCHANGED <<battleVars, dmg, ai_difficulty, serverVars, netVars>>

MonNext ==
    \E stat \in StatNames \cup {"luck"}, stages \in StageDeltas :
        CallModifyStatStage(stat, stages)

MonSpec == MonInit /\ [][MonNext]_vars

---------------------------------------------------------------------------
(* Method-level specification of Pokemon: take_damage, heal and apply_status *)
(* called in any order on one Pokemon object                               *)

\* amounts handed to take_damage: 0 (a damaging move of power 0), and amounts
\* below, at and above the remaining HP
DamageCalls == {0, 1, 4, 12}

\* amounts handed to heal: nothing, less than the missing HP, and a potion's 20
HealCalls == {0, 3, 20}

CallTakeDamage(damage) ==
    /\ calls < MaxCalls
    /\ calls' = calls + 1
    /\ mon' = TakeDamage(mon, damage)
    /\ ret' = [op |-> "take_damage", damage |-> damage,
               value |-> TakeDamageRet(mon, damage)]
    /\ UNCHANGED <<battleVars, dmg, ai_difficulty, serverVars, netVars>>

CallHeal(amount) ==
    /\ calls < MaxCalls
    /\ calls' = calls + 1
    /\ mon' = Heal(mon, amount)
    /\ ret' = [op |-> "heal", amount |-> amount, value |-> HealRet(mon, amount)]
    /\ UNCHANGED <<battleVars, dmg, ai_difficulty, serverVars, netVars>>

CallApplyStatus(status) ==
    /\ calls < MaxCalls
    /\ calls' = calls + 1
    /\ mon' = ApplyStatus(mon, status)
    /\ ret' = [op |-> "apply_status", status |-> status,
               value |-> ApplyStatusRet(mon, status)]
    /\ UNCHANGED <<battleVars, dmg, ai_difficulty, serverVars, netVars>>

HealthNext ==
    \/ \E damage \in DamageCalls : CallTakeDamage(damage)
    \/ \E amount \in HealCalls : CallHeal(amount)
    \/ \E status \in Statuses : CallApplyStatus(status)

HealthSpec == MonInit /\ [][HealthNext]_vars

---------------------------------------------------------------------------
(* Method-level specification of Battle._execute_item: item actions of both *)
(* sides, in any order, between hits taken by their Pokemon                 *)

\* teams of level-50 Pokemon, whose max_hp is well above a potion's 20
ItemRosters ==
    <<  <<[id |-> 1, level |-> 50], [id |-> 2, level |-> 50]>>,
        <<[id |-> 3, level |-> 50]>>  >>

\* damage of the hits: a light one, and one that leaves less than 20 HP
ItemHits == {35, 80}

ItemInit ==
    /\ player = [side \in Sides |-> NewPlayer(ItemRosters[side])]
    /\ current_turn = 0
    /\ is_battle_over = FALSE
    /\ winner = 0
    /\ battle_log = <<>>
    /\ pc = "item"
    /\ actions = <<>>
    /\ mon = NoMon /\ ret = NoMon /\ calls = 0
    /\ dmg = NoDmg /\ ai_difficulty = "none"
    /\ ServerUnused /\ NetUnused

\* a Pokemon of the team is hit: take_damage(damage)
CallTeamTakeDamage(side, index, damage) ==
    /\ calls < MaxItemCalls
    /\ calls' = calls + 1
    /\ player' = [player EXCEPT ![side].team[index] = TakeDamage(@, damage)]
    /\ battle_log' = <<>>
    /\ ret' = [op |-> "take_damage", side |-> side, index |-> index, damage |-> damage]
    /\ UNCHANGED <<current_turn, is_battle_over, winner, pc, actions, mon, dmg, ai_difficulty, serverVars, netVars>>

\* _execute_item(player, item, target_index), on the log of a new turn
CallExecuteItem(side, item, target_index) ==
    /\ calls < MaxItemCalls
    /\ calls' = calls + 1
    /\ SetBattle(ExecuteItem([Battle EXCEPT !.battle_log = <<>>], side, item, target_index))
    /\ ret' = [op |-> "execute_item", side |-> side, item |-> item,
               target_index |-> target_index]
    /\ UNCHANGED <<current_turn, pc, actions, mon, dmg, ai_difficulty, serverVars, netVars>>

ItemNext ==
    \/ \E side \in Sides : \E index \in DOMAIN player[side].team : \E damage \in ItemHits :
          CallTeamTakeDamage(side, index, damage)
    \/ \E side \in Sides : \E index \in Indexes(player[side]) :
          CallExecuteItem(side, "potion", index)
    \/ \E side \in Sides : CallExecuteItem(side, "berry", 0)

ItemSpec == ItemInit /\ [][ItemNext]_vars

---------------------------------------------------------------------------
(* Specification of the end-of-turn phase: turns in which both sides pass,  *)
(* started from battles in progress between higher-level teams             *)

\* a team whose second Pokemon has max_hp 160, against a single Pokemon
EndOfTurnRosters ==
    <<  <<[id |-> 1, level |-> 50], [id |-> 5, level |-> 100]>>,
        <<[id |-> 3, level |-> 50]>>  >>

\* the statuses a Pokemon may carry at the start: those apply_status can set
EndOfTurnStatuses(p) ==
    {"none"} \cup {s \in {"burned", "poisoned", "paralyzed"} : ApplyStatusRet(p, s)}

\* the HP a Pokemon may have at the start: fainted, nearly fainted, untouched
EndOfTurnHp(p) == {0, 3, p.max_hp}

\* the states a fresh Pokemon p may have come to
EndOfTurnPokemon(p) ==
    {[p EXCEPT !.status = s, !.current_hp = h] :
        s \in EndOfTurnStatuses(p), h \in EndOfTurnHp(p)}

EndOfTurnInit ==
    /\ \E side1 \in [team : [{0, 1} -> UNION {EndOfTurnPokemon(NewPokemon(r.id, r.level)) :
                                                  r \in Range(EndOfTurnRosters[1])}],
                      active_pokemon_index : {0, 1}, potions : {3}] :
       \E side2 \in [team : [{0} -> EndOfTurnPokemon(NewPokemon(3, 50))],
                      active_pokemon_index : {0}, potions : {3}] :
          /\ \A i \in {0, 1} : side1.team[i].id = EndOfTurnRosters[1][i + 1].id
          /\ HasUsablePokemon(side1) /\ HasUsablePokemon(side2)
          /\ player = <<side1, side2>>
    /\ current_turn = 0
    /\ is_battle_over = FALSE
    /\ winner = 0
    /\ battle_log = <<>>
    /\ pc = "idle"
    /\ actions = <<>>
    /\ mon = NoMon /\ ret = NoMon /\ calls = 0
    /\ dmg = NoDmg /\ ai_difficulty = "none"
    /\ ServerUnused /\ NetUnused

EndOfTurnNext ==
    \/ ExecuteTurnBegin([type |-> "pass"], [type |-> "pass"])
    \/ ExecuteNextAction
    \/ ExecuteTurnEnd

EndOfTurnSpec == EndOfTurnInit /\ [][EndOfTurnNext]_vars

---------------------------------------------------------------------------
(* Function-level specification of Battle._calculate_damage *)

\* a Pokemon whose four battle stats are all `stat`
ScenarioPokemon(level, types, stat, attack_stage) ==
    [NewPokemon(1, level) EXCEPT
        !.types = types, !.attack = stat, !.defense = stat,
        !.sp_attack = stat, !.sp_defense = stat,
        !.stat_stages = [@ EXCEPT !["attack"] = attack_stage]]

ScenarioLevels == {1, 50}
ScenarioStats == {50, 100}
ScenarioPowers == {0, 40, 80}
ScenarioMoveTypes == {"Normal", "Fire"}
ScenarioAttackerTypes == {<<"Normal">>, <<"Fire">>}
ScenarioDefenderTypes == {<<"Normal">>, <<"Fire">>, <<"Ghost", "Poison">>}
ScenarioStages == {0, 1}

DamageInit ==
    /\ BattleUnused
    /\ mon = NoMon /\ ret = NoMon /\ calls = 0
    /\ dmg = NoDmg /\ ai_difficulty = "none"
    /\ ServerUnused /\ NetUnused

CallCalculateDamage(attacker, defender, move, r) ==
    /\ dmg = NoDmg
    /\ dmg' = [op |-> "calculate_damage", attacker |-> attacker, defender |-> defender,
               move |-> move, r |-> r,
               damage |-> CalculateDamage(attacker, defender, move, r, 1).damage]
    /\ UNCHANGED <<battleVars, monVars, serverVars, netVars, ai_difficulty>>

DamageNext ==
    \E level \in ScenarioLevels, attack \in ScenarioStats, defense \in ScenarioStats,
       stage \in ScenarioStages,
       attacker_types \in ScenarioAttackerTypes, defender_types \in ScenarioDefenderTypes,
       move_type \in ScenarioMoveTypes, category \in {"Physical", "Special"},
       power \in ScenarioPowers, variance \in Variance, crit \in BOOLEAN :
        CallCalculateDamage(
            ScenarioPokemon(level, attacker_types, attack, stage),
            ScenarioPokemon(level, defender_types, defense, 0),
            [type |-> move_type, category |-> category, power |-> power,
             accuracy |-> 100, effect |-> NoEffect],
            [NoRoll EXCEPT !.variance = variance, !.crit = crit])

DamageSpec == DamageInit /\ [][DamageNext]_vars

---------------------------------------------------------------------------
(* network.py: PokemonServer._handle_client, one thread per accepted        *)
(* connection.  A worker and its socket carry the same number.  A step is  *)
(* the code between two blocking calls or two accesses to self.clients or  *)
(* self.battles, which no lock protects.                                   *)

Workers == 1..MaxWorkers

\* values of random.randint(1000, 9999)
BattleIds == {"1000", "1001"}

PlayerName(w) == <<"Ann", "Bob", "Cy", "Di">>[w]

\* send_data: the message reaches the peer unless the socket is closed or lost
SendTo(wk, cn, sock, msg) ==
    IF sock \in DOMAIN cn /\ cn[sock] = "open"
    THEN [wk EXCEPT ![sock].sent = Append(@, msg)]
    ELSE wk

\* receive_data on the socket of w: None once the peer has gone
Received(w, data) == IF conn[w] = "open" THEN data ELSE {Closed}

LobbyInit ==
    /\ BattleUnused
    /\ mon = NoMon /\ ret = NoMon /\ calls = 0
    /\ dmg = NoDmg /\ ai_difficulty = "none"
    /\ ServerUnused
    /\ battles = <<>> /\ clients = <<>> /\ link = <<>>
    /\ conn = [w \in Workers |-> "open"]
    /\ worker = [w \in Workers |->
                   [pc |-> "recv_name", battle_id |-> "", keep |-> <<>>,
                    sent |-> <<[type |-> "welcome"], [type |-> "request_name"]>>]]

\* name_data = self.receive_data(client_socket), up to the receive of the mode
RecvName(w, name_data) ==
    /\ worker[w].pc = "recv_name"
    /\ IF name_data \in {NoReply, Closed}
       THEN /\ conn' = [conn EXCEPT ![w] = "closed"]
            /\ worker' = [worker EXCEPT ![w].pc = "finally"]
            /\ UNCHANGED clients
       ELSE /\ clients' = Append(clients, <<w, name_data.name>>)
            /\ worker' = SendTo([worker EXCEPT ![w].pc = "recv_mode"], conn, w,
                                [type |-> "request_mode"])
            /\ UNCHANGED conn
    /\ UNCHANGED <<battleVars, monVars, dmg, ai_difficulty, serverVars, battles, link>>

\* mode_data = self.receive_data(client_socket), and the dispatch on the mode
RecvMode(w, mode_data) ==
    /\ worker[w].pc = "recv_mode"
    /\ IF mode_data \notin {NoReply, Closed} /\ mode_data.mode \in {"host", "join"}
       THEN /\ worker' = [worker EXCEPT ![w].pc =
                             IF mode_data.mode = "host" THEN "host_pick" ELSE "join_list"]
            /\ UNCHANGED conn
       ELSE /\ conn' = [conn EXCEPT ![w] = "closed"]
            /\ worker' = [worker EXCEPT ![w].pc = "finally"]
    /\ UNCHANGED <<battleVars, monVars, dmg, ai_difficulty, serverVars, battles, clients, link>>

\* _handle_host_mode: the last random id and its test `battle_id in self.battles`
HostPick(w, id) ==
    /\ worker[w].pc = "host_pick"
    /\ id \notin DOMAIN battles
    /\ worker' = [worker EXCEPT ![w].pc = "host_create", ![w].battle_id = id]
    /\ UNCHANGED <<battleVars, monVars, dmg, ai_difficulty, serverVars, battles, clients, conn, link>>

\* self.battles[battle_id] = {...}, and the battle_created message
HostCreate(w) ==
    /\ worker[w].pc = "host_create"
    /\ LET id == worker[w].battle_id
           entry == [host_socket |-> w, host_name |-> PlayerName(w),
                     challenger_socket |-> 0, challenger_name |-> "",
                     status |-> "waiting"]
       IN battles' = [i \in DOMAIN battles \cup {id} |->
                         IF i = id THEN entry ELSE battles[i]]
    /\ worker' = SendTo([worker EXCEPT ![w].pc = "host_wait"], conn, w,
                        [type |-> "battle_created", battle_id |-> worker[w].battle_id])
    /\ UNCHANGED <<battleVars, monVars, dmg, ai_difficulty, serverVars, clients, conn, link>>

\* one test of the wait loop of _handle_host_mode: sleep again while the match
\* is waiting; otherwise return if it is gone, or tell the host that the
\* opponent joined and start _handle_team_selection up to its first receive
HostPoll(w) ==
    /\ worker[w].pc = "host_wait"
    /\ LET id == worker[w].battle_id IN
       IF id \in DOMAIN battles /\ battles[id].status = "waiting"
       THEN UNCHANGED <<worker, battles>>
       ELSE IF id \notin DOMAIN battles
       THEN /\ worker' = [worker EXCEPT ![w].pc = "finally"]
            /\ UNCHANGED battles
       ELSE LET b == battles[id]
                told == SendTo(worker, conn, w,
                               [type |-> "opponent_joined",
                                opponent_name |-> b.challenger_name])
                host == SendTo(told, conn, w, [type |-> "team_selection"])
                both == SendTo(host, conn, b.challenger_socket,
                               [type |-> "team_selection"])
            IN /\ worker' = [both EXCEPT ![w].pc = "recv_team"]
               /\ battles' = [battles EXCEPT ![id].status = "team_selection"]
    /\ UNCHANGED <<battleVars, monVars, dmg, ai_difficulty, serverVars, clients, conn, link>>

\* the matches _handle_join_mode lists: those whose status is "waiting"
AvailableBattles == {id \in DOMAIN battles : battles[id].status = "waiting"}

\* _handle_join_mode up to its receive: no_battles or available_battles
JoinList(w) ==
    /\ worker[w].pc = "join_list"
    /\ IF AvailableBattles = {}
       THEN worker' = SendTo([worker EXCEPT ![w].pc = "finally"], conn, w,
                             [type |-> "no_battles"])
       ELSE worker' = SendTo([worker EXCEPT ![w].pc = "join_select"], conn, w,
                             [type |-> "available_battles", battles |-> AvailableBattles])
    /\ UNCHANGED <<battleVars, monVars, dmg, ai_difficulty, serverVars, battles, clients, conn, link>>

\* selection_data = self.receive_data(client_socket) and the rest of
\* _handle_join_mode: the selected match, if it is still waiting, gets this
\* socket and name as its challenger; its status is left as it is
JoinSelect(w, selection_data) ==
    /\ worker[w].pc = "join_select"
    /\ IF selection_data \in {NoReply, Closed}
       THEN /\ worker' = [worker EXCEPT ![w].pc = "finally"]
            /\ UNCHANGED battles
       ELSE LET id == selection_data.battle_id IN
            IF id \notin DOMAIN battles \/ battles[id].status # "waiting"
            THEN /\ worker' = SendTo([worker EXCEPT ![w].pc = "finally"], conn, w,
                                     [type |-> "error"])
                 /\ UNCHANGED battles
            ELSE /\ battles' = [battles EXCEPT ![id].challenger_socket = w,
                                               ![id].challenger_name = PlayerName(w)]
                 /\ worker' = SendTo([worker EXCEPT ![w].pc = "finally"], conn, w,
                                     [type |-> "battle_joined", battle_id |-> id,
                                      host_name |-> battles[id].host_name])
    /\ UNCHANGED <<battleVars, monVars, dmg, ai_difficulty, serverVars, clients, conn, link>>

\* finally: the list comprehension over self.clients
RemoveRead(w) ==
    /\ worker[w].pc = "finally"
    /\ worker' = [worker EXCEPT ![w].pc = "remove_write",
                                ![w].keep = SelectSeq(clients, LAMBDA c : c[1] # w)]
    /\ UNCHANGED <<battleVars, monVars, dmg, ai_difficulty, serverVars, battles, clients, conn, link>>

\* finally: the assignment to self.clients, and client_socket.close()
RemoveWrite(w) ==
    /\ worker[w].pc = "remove_write"
    /\ clients' = worker[w].keep
    /\ conn' = [conn EXCEPT ![w] = "closed"]
    /\ worker' = [worker EXCEPT ![w].pc = "done", ![w].keep = <<>>]
    /\ UNCHANGED <<battleVars, monVars, dmg, ai_difficulty, serverVars, battles, link>>

\* the peer of w closes its connection or is cut off
PeerLoss(w) ==
    /\ conn[w] = "open"
    /\ conn' = [conn EXCEPT ![w] = "lost"]
    /\ UNCHANGED <<battleVars, monVars, dmg, ai_difficulty, serverVars, battles, clients, worker, link>>

NameReplies(w) == {NoReply, [name |-> PlayerName(w)]}
ModeReplies == {NoReply, [mode |-> "host"], [mode |-> "join"], [mode |-> "watch"]}
SelectionReplies == {NoReply} \cup {[battle_id |-> id] : id \in BattleIds}

\* the steps of worker w that wait for no message of its peer
WorkerStep(w) ==
    \/ \E id \in BattleIds : HostPick(w, id)
    \/ HostCreate(w)
    \/ HostPoll(w)
    \/ JoinList(w)
    \/ RemoveRead(w)
    \/ RemoveWrite(w)

LobbyNext ==
    \E w \in Workers :
        \/ \E d \in Received(w, NameReplies(w)) : RecvName(w, d)
        \/ \E d \in Received(w, ModeReplies) : RecvMode(w, d)
        \/ \E d \in Received(w, SelectionReplies) : JoinSelect(w, d)
        \/ WorkerStep(w)
        \/ PeerLoss(w)

\* every thread is scheduled again and again
LobbyFairness == \A w \in Workers : WF_vars(WorkerStep(w))

LobbySpec == LobbyInit /\ [][LobbyNext]_vars /\ LobbyFairness

---------------------------------------------------------------------------
(* network.py / client.py: send_data and receive_data over one connection.  *)
(* A JSON value is [obj |-> list of <<key, value>>], [str |-> bytes] or     *)
(* [int |-> n]; a string is the list of its UTF-8 bytes.                    *)

\* str.encode('utf-8') of the strings that occur in Action values
Utf8 ==
    [action |-> <<97, 99, 116, 105, 111, 110>>,
     type |-> <<116, 121, 112, 101>>,
     move |-> <<109, 111, 118, 101>>,
     switch |-> <<115, 119, 105, 116, 99, 104>>,
     item |-> <<105, 116, 101, 109>>,
     pass |-> <<112, 97, 115, 115>>,
     potion |-> <<112, 111, 116, 105, 111, 110>>,
     pokemon_index |-> <<112, 111, 107, 101, 109, 111, 110, 95, 105, 110, 100, 101, 120>>,
     target_index |-> <<116, 97, 114, 103, 101, 116, 95, 105, 110, 100, 101, 120>>,
     Tackle |-> <<84, 97, 99, 107, 108, 101>>]

JStr(s) == [str |-> Utf8[s]]
JInt(n) == [int |-> n]
JObj(pairs) == [obj |-> pairs]

RECURSIVE Digits(_)
Digits(n) == IF n < 10 THEN <<48 + n>> ELSE Append(Digits(n \div 10), 48 + (n % 10))

RECURSIVE Dumps(_)
RECURSIVE DumpsMembers(_)

\* the members of a dictionary, separated by ", ", each as "key": value
DumpsMembers(pairs) ==
    IF pairs = <<>> THEN <<>>
    ELSE LET first == <<34>> \o Head(pairs)[1] \o <<34, 58, 32>> \o Dumps(Head(pairs)[2])
         IN IF Len(pairs) = 1 THEN first
            ELSE first \o <<44, 32>> \o DumpsMembers(Tail(pairs))

\* json.dumps(data).encode('utf-8')
Dumps(value) ==
    IF "obj" \in DOMAIN value THEN <<123>> \o DumpsMembers(value.obj) \o <<125>>
    ELSE IF "str" \in DOMAIN value THEN <<34>> \o value.str \o <<34>>
    ELSE IF value.int < 0 THEN <<45>> \o Digits(-value.int)
    ELSE Digits(value.int)

\* receive_data returning None
None == [none |-> TRUE]

ParseFail == [ok |-> FALSE]

RECURSIVE SkipSpace(_, _)
SkipSpace(bs, i) ==
    IF i <= Len(bs) /\ bs[i] \in {32, 9, 10, 13} THEN SkipSpace(bs, i + 1) ELSE i

\* the index of the quote that closes the string whose text starts at i, or 0
\* (a backslash or a control character: no message of the model holds one)
RECURSIVE ScanString(_, _)
ScanString(bs, i) ==
    IF i > Len(bs) \/ bs[i] = 92 \/ bs[i] < 32 THEN 0
    ELSE IF bs[i] = 34 THEN i
    ELSE ScanString(bs, i + 1)

\* the index after the digits that start at i
RECURSIVE ScanDigits(_, _)
ScanDigits(bs, i) ==
    IF i <= Len(bs) /\ bs[i] \in 48..57 THEN ScanDigits(bs, i + 1) ELSE i

RECURSIVE Number(_, _, _)
Number(bs, i, j) ==
    IF i >= j THEN 0 ELSE 10 * Number(bs, i, j - 1) + (bs[j - 1] - 48)

RECURSIVE ParseValue(_, _)
RECURSIVE ParseMembers(_, _, _)

\* the members of a dictionary from index i on, after those of acc
ParseMembers(bs, i, acc) ==
    IF i > Len(bs) \/ bs[i] # 34 THEN ParseFail
    ELSE LET j == ScanString(bs, i + 1)
             k == SkipSpace(bs, j + 1)
         IN IF j = 0 \/ k > Len(bs) \/ bs[k] # 58 THEN ParseFail
            ELSE LET val == ParseValue(bs, k + 1) IN
                 IF ~val.ok THEN ParseFail
                 ELSE LET m == SkipSpace(bs, val.next)
                          all == Append(acc, <<SubSeq(bs, i + 1, j - 1), val.v>>)
                      IN IF m > Len(bs) THEN ParseFail
                         ELSE IF bs[m] = 125 THEN [ok |-> TRUE, v |-> JObj(all), next |-> m + 1]
                         ELSE IF bs[m] = 44 THEN ParseMembers(bs, SkipSpace(bs, m + 1), all)
                         ELSE ParseFail

\* the JSON value that starts at index i: a dictionary, a string or an integer
ParseValue(bs, i) ==
    LET s == SkipSpace(bs, i) IN
    IF s > Len(bs) THEN ParseFail
    ELSE IF bs[s] = 123
    THEN LET m == SkipSpace(bs, s + 1) IN
         IF m <= Len(bs) /\ bs[m] = 125
         THEN [ok |-> TRUE, v |-> JObj(<<>>), next |-> m + 1]
         ELSE ParseMembers(bs, m, <<>>)
    ELSE IF bs[s] = 34
    THEN LET j == ScanString(bs, s + 1) IN
         IF j = 0 THEN ParseFail
         ELSE [ok |-> TRUE, v |-> [str |-> SubSeq(bs, s + 1, j - 1)], next |-> j + 1]
    ELSE LET d == IF bs[s] = 45 THEN s + 1 ELSE s
             e == ScanDigits(bs, d)
         IN IF e = d \/ (e > d + 1 /\ bs[d] = 48) THEN ParseFail
            ELSE [ok |-> TRUE,
                  v |-> JInt(IF bs[s] = 45 THEN -Number(bs, d, e) ELSE Number(bs, d, e)),
                  next |-> e]

\* json.loads(message.decode('utf-8')); an exception makes receive_data return None
Loads(bs) ==
    LET r == ParseValue(bs, 1) IN
    IF r.ok /\ SkipSpace(bs, r.next) > Len(bs) THEN r.v ELSE None

\* message_length.to_bytes(4, byteorder='big')
ToBytes4(n) ==
    <<(n \div 16777216) % 256, (n \div 65536) % 256, (n \div 256) % 256, n % 256>>

\* int.from_bytes(header, byteorder='big')
FromBytes4(h) == ((h[1] * 256 + h[2]) * 256 + h[3]) * 256 + h[4]

\* the Action values, as the client sends them: {"action": action}
WireActions ==
    { JObj(<< <<Utf8["type"], JStr("pass")>> >>),
      JObj(<< <<Utf8["type"], JStr("move")>>, <<Utf8["move"], JStr("Tackle")>> >>),
      JObj(<< <<Utf8["type"], JStr("item")>>, <<Utf8["item"], JStr("potion")>>,
              <<Utf8["target_index"], JInt(0)>> >>) }
    \cup { JObj(<< <<Utf8["type"], JStr("switch")>>, <<Utf8["pokemon_index"], JInt(n)>> >>) :
              n \in {-1, 0, 12} }

WireMessages == { JObj(<< <<Utf8["action"], a>> >>) : a \in WireActions }

\* receive_data is not running, or is about to read a header
RxIdle == [at |-> "header", message_length |-> 0, chunks |-> <<>>]

WireInit ==
    /\ BattleUnused
    /\ mon = NoMon /\ ret = NoMon /\ calls = 0
    /\ dmg = NoDmg /\ ai_difficulty = "none"
    /\ ServerUnused
    /\ battles = <<>> /\ clients = <<>> /\ worker = <<>> /\ conn = <<>>
    /\ link = [sent |-> <<>>, stream |-> <<>>, rx |-> RxIdle, got |-> <<>>]

\* send_data(data): sendall of the 4-byte length and the serialized message
SendData(data) ==
    /\ Len(link.sent) < MaxMessages
    /\ LET serialized == Dumps(data) IN
       link' = [link EXCEPT !.sent = Append(@, data),
                            !.stream = @ \o ToBytes4(Len(serialized)) \o serialized]
    /\ UNCHANGED <<battleVars, monVars, dmg, ai_difficulty, serverVars, battles, clients, worker, conn>>

\* receive_data from its start to the first recv of the message: recv(4) hands
\* over the first n bytes of the stream, 1 <= n <= 4; the receiving end calls
\* receive_data once for every message it expects
RecvHeader(n) ==
    /\ link.rx.at = "header"
    /\ Len(link.got) < MaxMessages
    /\ n \in 1..Min(4, Len(link.stream))
    /\ LET header == SubSeq(link.stream, 1, n)
           rest == SubSeq(link.stream, n + 1, Len(link.stream))
       IN IF n # 4
          THEN link' = [link EXCEPT !.stream = rest, !.got = Append(@, None)]
          ELSE IF FromBytes4(header) = 0
          THEN link' = [link EXCEPT !.stream = rest, !.got = Append(@, Loads(<<>>))]
          ELSE link' = [link EXCEPT !.stream = rest,
                                    !.rx = [at |-> "body", message_length |-> FromBytes4(header),
                                            chunks |-> <<>>]]
    /\ UNCHANGED <<battleVars, monVars, dmg, ai_difficulty, serverVars, battles, clients, worker, conn>>

\* one recv of the loop of receive_data, which hands over the first n bytes
\* of the stream, and the return once the message is complete
RecvChunk(n) ==
    /\ link.rx.at = "body"
    /\ LET missing == link.rx.message_length - Len(link.rx.chunks) IN
       /\ n \in 1..Min(Min(missing, 4096), Len(link.stream))
       /\ LET message == link.rx.chunks \o SubSeq(link.stream, 1, n)
              rest == SubSeq(link.stream, n + 1, Len(link.stream))
          IN IF n < missing
             THEN link' = [link EXCEPT !.stream = rest, !.rx.chunks = message]
             ELSE link' = [link EXCEPT !.stream = rest, !.rx = RxIdle,
                                       !.got = Append(@, Loads(message))]
    /\ UNCHANGED <<battleVars, monVars, dmg, ai_difficulty, serverVars, battles, clients, worker, conn>>

\* sizes of the pieces in which the transport hands over the stream
ChunkSizes == {1, 3, 4, 7, 4096}

WireNext ==
    \/ \E data \in WireMessages : SendData(data)
    \/ \E n \in ChunkSizes : RecvHeader(n)
    \/ \E n \in ChunkSizes :
          RecvChunk(Min(n, Min(link.rx.message_length - Len(link.rx.chunks),
                               Len(link.stream))))

WireSpec == WireInit /\ [][WireNext]_vars

---------------------------------------------------------------------------
(* network.py: the state snapshot sent with request_action and              *)
(* request_switch, called between the turns of battles in progress         *)

\* current_hp / max_hp: equal quotients give equal floats, so the quotient is
\* kept as a fraction in lowest terms
HpPercent(p) ==
    LET g == Gcd(p.current_hp, p.max_hp)
    IN <<p.current_hp \div g, p.max_hp \div g>>

\* GetPokemonInfo giving the full detail whatever full_info is
GetPokemonInfoAlwaysFull(p, full_info) ==
    [id |-> p.id, name |-> POKEMON_DATA[p.id].name, nickname |-> POKEMON_DATA[p.id].name,
     level |-> p.level, types |-> p.types, moves |-> p.moves,
     current_hp |-> p.current_hp, max_hp |-> p.max_hp, status |-> p.status,
     stat_stages |-> p.stat_stages, is_fainted |-> IsFainted(p)]

\* _get_pokemon_info; the nickname of a Pokemon built from a team reply
\* without nickname is its species name
GetPokemonInfo(p, full_info) ==
    IF ~full_info
    THEN [name |-> POKEMON_DATA[p.id].name, nickname |-> POKEMON_DATA[p.id].name,
          level |-> p.level, types |-> p.types,
          current_hp_percent |-> HpPercent(p),
          status |-> p.status, is_fainted |-> IsFainted(p)]
    ELSE [id |-> p.id, name |-> POKEMON_DATA[p.id].name,
          nickname |-> POKEMON_DATA[p.id].name,
          level |-> p.level, types |-> p.types, moves |-> p.moves,
          current_hp |-> p.current_hp, max_hp |-> p.max_hp, status |-> p.status,
          stat_stages |-> p.stat_stages, is_fainted |-> IsFainted(p)]

\* _get_battle_state(battle, player) for the player of `side`, in turn `turn`
GetBattleState(b, turn, side) ==
    LET pl == b.player[side]
        opponent == b.player[Other(side)]
    IN [active_pokemon |->
            IF HasActive(pl) THEN GetPokemonInfo(ActivePokemon(pl), TRUE) ELSE None,
        opponent_pokemon |->
            IF HasActive(opponent) THEN GetPokemonInfo(ActivePokemon(opponent), FALSE)
            ELSE None,
        team |-> [i \in DOMAIN pl.team |-> GetPokemonInfo(pl.team[i], TRUE)],
        potions |-> pl.potions,
        turn |-> turn]

\* state = self._get_battle_state(battle, player)
CallGetBattleState(side) ==
    /\ pc = "idle"
    /\ ret' = [op |-> "get_battle_state", side |-> side,
               state |-> GetBattleState(Battle, current_turn, side)]
    /\ UNCHANGED <<battleVars, mon, calls, dmg, ai_difficulty, serverVars, netVars>>

\* the turns between the snapshots: the first side passes, the second
\* passes or raises its speed
SnapshotNext ==
    \/ \E side \in Sides : CallGetBattleState(side)
    \/ \E a2 \in {[type |-> "pass"], [type |-> "move", move |-> "Agility"]} :
          ExecuteTurnBegin([type |-> "pass"], a2)
    \/ ExecuteNextAction
    \/ ExecuteTurnEnd

SnapshotSpec == EndOfTurnInit /\ [][SnapshotNext]_vars

---------------------------------------------------------------------------
(* player.py: class AIPlayer.  The scores are Python floats; they are kept  *)
(* as exact fractions <<numerator, denominator>> in lowest terms.  A result *)
(* that depends on random is the set of the values it may take.            *)

Frac(n, d) == LET g == Gcd(n, d) IN <<n \div g, d \div g>>
FracMul(x, y) == Frac(x[1] * y[1], x[2] * y[2])
FracAdd(x, y) == Frac(x[1] * y[2] + y[1] * x[2], x[2] * y[2])
FracLess(x, y) == x[1] * y[2] < y[1] * x[2]
FracMax(S) == IF S = {} THEN <<0, 1>> ELSE CHOOSE x \in S : \A y \in S : ~FracLess(x, y)

\* current_hp / max_hp
HpFactor(p) == Frac(p.current_hp, p.max_hp)

\* MOVE_DATA.get(move_name, {}) with the defaults of move.get(...)
MoveGet(move_name) ==
    IF move_name \in DOMAIN MOVE_DATA THEN MOVE_DATA[move_name]
    ELSE [type |-> "Normal", power |-> 0, accuracy |-> 100, effect |-> NoEffect]

\* the product of the chart values of move_type over the types, as a fraction
EffectivenessFrac(move_type, types) ==
    Frac(Effectiveness(move_type, types), Pow2(Len(types)))

\* stab = 1.5 if move_type in types else 1.0
Stab(move_type, types) == IF move_type \in Range(types) THEN <<3, 2>> ELSE <<1, 1>>

\* the exception a policy may end with instead of returning an action
Raise == [type |-> "raise", error |-> "ZeroDivisionError"]

\* _can_switch
CanSwitch(pl) ==
    \E i \in DOMAIN pl.team : i # pl.active_pokemon_index /\ ~IsFainted(pl.team[i])

\* _can_use_potion
CanUsePotion(pl) ==
    IF pl.potions <= 0 THEN FALSE
    ELSE \E i \in DOMAIN pl.team :
            ~IsFainted(pl.team[i]) /\ pl.team[i].current_hp < pl.team[i].max_hp

\* _calculate_effectiveness_score divides by a chart value that is 0
EffectivenessScoreRaises(attacker, defender) ==
    \E dt \in Range(defender.types), at \in Range(attacker.types) :
        TypeEffectiveness(dt, at) = 0

\* resistance of the attacker's types to one type of the defender: the
\* product of 1.0 / chart value (the chart is kept in halves)
RECURSIVE Resistance(_, _)
Resistance(defender_type, attacker_types) ==
    IF attacker_types = <<>> THEN <<1, 1>>
    ELSE FracMul(Frac(2, TypeEffectiveness(defender_type, Head(attacker_types))),
                 Resistance(defender_type, Tail(attacker_types)))

RECURSIVE DefensiveScore(_, _)
DefensiveScore(defender_types, attacker_types) ==
    IF defender_types = <<>> THEN <<0, 1>>
    ELSE FracAdd(Resistance(Head(defender_types), attacker_types),
                 DefensiveScore(Tail(defender_types), attacker_types))

\* _calculate_effectiveness_score, where it returns
CalculateEffectivenessScore(attacker, defender) ==
    LET offensive_score ==
            FracMax({FracMul(FracMul(<<MoveGet(m).power, 1>>,
                                     EffectivenessFrac(MoveGet(m).type, defender.types)),
                             Stab(MoveGet(m).type, attacker.types)) :
                        m \in {n \in Range(attacker.moves) : MoveGet(n).power > 0}})
        defensive_score ==
            FracMul(DefensiveScore(defender.types, attacker.types),
                    <<1, Len(defender.types)>>)
    IN FracMul(FracAdd(FracMul(offensive_score, <<7, 10>>),
                       FracMul(defensive_score, <<30, 1>>)),
               <<1, 100>>)

\* random.uniform(0.5, 1.5), at its ends and its middle
EasyFactors == {<<1, 2>>, <<1, 1>>, <<3, 2>>}

\* the factors the score is multiplied with for the difficulty
DifficultyFactors(difficulty) == IF difficulty = "easy" THEN EasyFactors ELSE {<<1, 1>>}

\* the score _find_best_move gives a move that it does not skip
MoveScore(pl, opponent_pokemon, move_name) ==
    LET move == MoveGet(move_name)
        own == ActivePokemon(pl)
        effectiveness == EffectivenessFrac(move.type, opponent_pokemon.types)
        accuracy == <<move.accuracy, 100>>
        effect == DOMAIN move.effect
        bonus == IF "stat_boost" \in effect \/ "stat_boost_chance" \in effect THEN <<20, 1>>
                 ELSE IF "heal" \in effect
                      THEN Frac(15 * (own.max_hp - own.current_hp), own.max_hp)
                 ELSE IF "status" \in effect
                      THEN (IF opponent_pokemon.status = "none" THEN <<25, 1>> ELSE <<5, 1>>)
                 ELSE <<0, 1>>
    IN IF move.power > 0
       THEN FracMul(FracMul(FracMul(<<move.power, 1>>, effectiveness),
                            Stab(move.type, own.types)), accuracy)
       ELSE FracAdd(FracMul(FracMul(<<30, 1>>, effectiveness), accuracy), bonus)

\* _find_best_move, from the i-th move on: the moves it may return
RECURSIVE FindBestMoveFrom(_, _, _, _, _)
FindBestMoveFrom(pl, opponent_pokemon, difficulty, i, best) ==
    LET moves == ActivePokemon(pl).moves IN
    IF i > Len(moves) THEN {best.move}
    ELSE LET move_name == moves[i]
             skips == IF MoveGet(move_name).power # 0 THEN {FALSE}
                      ELSE IF difficulty # "hard" THEN {TRUE}
                      ELSE {TRUE, FALSE}
         IN UNION {
              IF skip
              THEN FindBestMoveFrom(pl, opponent_pokemon, difficulty, i + 1, best)
              ELSE UNION {
                     LET score == FracMul(MoveScore(pl, opponent_pokemon, move_name), f)
                     IN FindBestMoveFrom(pl, opponent_pokemon, difficulty, i + 1,
                            IF FracLess(best.score, score)
                            THEN [move |-> move_name, score |-> score]
                            ELSE best) :
                     f \in DifficultyFactors(difficulty)} :
              skip \in skips}

\* _find_best_move
FindBestMove(pl, opponent_pokemon, difficulty) ==
    FindBestMoveFrom(pl, opponent_pokemon, difficulty, 1,
                     [move |-> ActivePokemon(pl).moves[1], score |-> <<0, 1>>])

\* the team indexes _find_best_switch and choose_switch consider
AvailableIndices(pl) ==
    {i \in DOMAIN pl.team : i # pl.active_pokemon_index /\ ~IsFainted(pl.team[i])}

\* _find_best_switch ends with the exception of _calculate_effectiveness_score
FindBestSwitchRaises(pl, opponent_pokemon) ==
    \E i \in AvailableIndices(pl) : EffectivenessScoreRaises(pl.team[i], opponent_pokemon)

\* _find_best_switch, from team index i on: the indexes it may return
RECURSIVE FindBestSwitchFrom(_, _, _, _, _)
FindBestSwitchFrom(pl, opponent_pokemon, difficulty, i, best) ==
    IF i >= TeamLen(pl) THEN {best.index}
    ELSE IF i \notin AvailableIndices(pl)
    THEN FindBestSwitchFrom(pl, opponent_pokemon, difficulty, i + 1, best)
    ELSE UNION {
           LET score == FracMul(FracMul(CalculateEffectivenessScore(pl.team[i],
                                                                     opponent_pokemon),
                                        HpFactor(pl.team[i])), f)
           IN FindBestSwitchFrom(pl, opponent_pokemon, difficulty, i + 1,
                  IF FracLess(best.score, score) THEN [index |-> i, score |-> score]
                  ELSE best) :
           f \in DifficultyFactors(difficulty)}

\* _find_best_switch, where it returns
FindBestSwitch(pl, opponent_pokemon, difficulty) ==
    FindBestSwitchFrom(pl, opponent_pokemon, difficulty, 0,
                       [index |-> -1, score |-> <<0, 1>>])

MoveAction(m) == [type |-> "move", move |-> m]
SwitchAction(i) == [type |-> "switch", pokemon_index |-> i]
PotionAction(i) == [type |-> "item", item |-> "potion", target_index |-> i]

\* RandomMove with a choice among all the moves of MOVE_DATA
RandomMoveOfAll(pl) == {MoveAction(m) : m \in MoveNames}

\* the moves random.choice(self.active_pokemon.moves) may give
RandomMove(pl) == {MoveAction(m) : m \in Range(ActivePokemon(pl).moves)}

\* _choose_action_easy: action_roll in [0, 0.8), [0.8, 0.95) or [0.95, 1)
ChooseActionEasy(pl, opponent_pokemon) ==
    LET need_healing == {i \in DOMAIN pl.team : /\ ~IsFainted(pl.team[i])
                                               /\ pl.team[i].current_hp < pl.team[i].max_hp}
        potion == IF pl.potions > 0 /\ CanUsePotion(pl)
                  THEN (IF need_healing # {}
                        THEN {PotionAction(i) : i \in need_healing}
                        ELSE RandomMove(pl))
                  ELSE RandomMove(pl)
        switch == IF CanSwitch(pl)
                  THEN (IF AvailableIndices(pl) # {}
                        THEN {SwitchAction(i) : i \in AvailableIndices(pl)}
                        ELSE RandomMove(pl))
                  ELSE potion
    IN RandomMove(pl) \cup switch \cup potion

\* the action around _find_best_switch: its exception, a switch to the index
\* it returns, or what follows when it returns -1
SwitchOrElse(pl, opponent_pokemon, difficulty, otherwise) ==
    IF FindBestSwitchRaises(pl, opponent_pokemon) THEN {Raise}
    ELSE UNION {IF best_index >= 0 THEN {SwitchAction(best_index)} ELSE otherwise :
                  best_index \in FindBestSwitch(pl, opponent_pokemon, difficulty)}

\* _choose_action_medium
ChooseActionMedium(pl, opponent_pokemon, difficulty) ==
    LET own == ActivePokemon(pl)
        best_move == {MoveAction(m) : m \in FindBestMove(pl, opponent_pokemon, difficulty)}
    IN IF own.current_hp * 100 < 25 * own.max_hp
       THEN best_move
            \cup (IF pl.potions > 0 /\ CanUsePotion(pl)
                  THEN {PotionAction(pl.active_pokemon_index)}
                  ELSE IF CanSwitch(pl)
                  THEN SwitchOrElse(pl, opponent_pokemon, difficulty, best_move)
                  ELSE best_move)
       ELSE best_move

\* _choose_action_hard
ChooseActionHard(pl, opponent_pokemon, difficulty) ==
    LET own == ActivePokemon(pl)
        effectiveness_score == CalculateEffectivenessScore(own, opponent_pokemon)
        best_move == {MoveAction(m) : m \in FindBestMove(pl, opponent_pokemon, difficulty)}
        potion_or_move ==
            IF /\ 15 * own.max_hp <= own.current_hp * 100
               /\ own.current_hp * 100 <= 40 * own.max_hp
               /\ pl.potions > 0
               /\ (FracLess(<<4, 5>>, effectiveness_score) \/ ~CanSwitch(pl))
            THEN {PotionAction(pl.active_pokemon_index)}
            ELSE best_move
    IN IF EffectivenessScoreRaises(own, opponent_pokemon) THEN {Raise}
       ELSE IF \/ FracLess(effectiveness_score, <<7, 10>>)
               \/ (own.current_hp * 100 < 30 * own.max_hp /\ CanSwitch(pl))
       THEN SwitchOrElse(pl, opponent_pokemon, difficulty, potion_or_move)
       ELSE potion_or_move

\* AIPlayer.choose_action of the player of `side`: the actions it may return
\* choose_action from its opponent on: the dispatch on the difficulty
ChooseActionAgainst(self, opponent, difficulty) ==
    IF ~HasActive(self) THEN {[type |-> "pass"]}
    ELSE IF ~HasActive(opponent) THEN {[type |-> "pass"]}
    ELSE IF difficulty = "easy" THEN ChooseActionEasy(self, ActivePokemon(opponent))
    ELSE IF difficulty = "hard"
    THEN ChooseActionHard(self, ActivePokemon(opponent), difficulty)
    ELSE ChooseActionMedium(self, ActivePokemon(opponent), difficulty)

\* the opponent of choose_action: battle.player1 in both branches
Opponent(b, side) == IF side = 2 THEN b.player[1] ELSE b.player[1]

ChooseAction(b, side, difficulty) ==
    ChooseActionAgainst(b.player[side], Opponent(b, side), difficulty)

\* the available index with the highest HP fraction, the lowest such index
\* first (sort is stable)
HealthiestIndex(pl) ==
    CHOOSE i \in AvailableIndices(pl) :
        \A j \in AvailableIndices(pl) :
            \/ FracLess(HpFactor(pl.team[j]), HpFactor(pl.team[i]))
            \/ (HpFactor(pl.team[j]) = HpFactor(pl.team[i]) /\ i <= j)

\* AIPlayer.choose_switch
ChooseSwitch(pl, difficulty) ==
    IF AvailableIndices(pl) = {} THEN [type |-> "pass"]
    ELSE IF difficulty # "easy" THEN SwitchAction(HealthiestIndex(pl))
    ELSE SwitchAction(CHOOSE i \in AvailableIndices(pl) :
                         \A j \in AvailableIndices(pl) : i <= j)

---------------------------------------------------------------------------
(* main.py: run_battle, a battle of a HumanPlayer (player1) against an      *)
(* AIPlayer (player2), from battles in progress between level-50 teams     *)

Difficulties == {"easy", "medium", "hard"}

\* the HP a Pokemon may have come to: fainted, nearly fainted, a third, untouched
AIHp(p) == {0, 3, p.max_hp \div 3, p.max_hp}

\* player1 has Gastly or Charmander in front of Pikachu, the AIPlayer has
\* Charmander and Rattata; the active Pokemon have not fainted
AIInit ==
    /\ \E human \in {2, 3}, hp1 \in {3, 200}, active2 \in {0, 1}, potions2 \in {0, 3} :
       \E hp2 \in [{0, 1} -> 0..200] :
          LET team1 == [i \in {0, 1} |->
                          IF i = 0
                          THEN [NewPokemon(human, 50) EXCEPT !.current_hp = Min(hp1, @)]
                          ELSE NewPokemon(4, 50)]
              team2 == [i \in {0, 1} |->
                          [NewPokemon(IF i = 0 THEN 3 ELSE 1, 50)
                              EXCEPT !.current_hp = hp2[i]]]
          IN /\ \A i \in {0, 1} : hp2[i] \in AIHp(team2[i])
             /\ hp2[active2] > 0
             /\ hp2[1 - active2] # 3
             /\ player = <<[team |-> team1, active_pokemon_index |-> 0, potions |-> 3],
                           [team |-> team2, active_pokemon_index |-> active2,
                            potions |-> potions2]>>
    /\ ai_difficulty \in Difficulties
    /\ current_turn = 0
    /\ is_battle_over = FALSE
    /\ winner = 0
    /\ battle_log = <<>>
    /\ pc = "idle"
    /\ actions = <<>>
    /\ mon = NoMon /\ ret = NoMon /\ calls = 0
    /\ dmg = NoDmg
    /\ ServerUnused /\ NetUnused

\* a side whose active Pokemon has fainted and that can replace it
MustSwitch(pl) == IsFainted(ActivePokemon(pl)) /\ HasUsablePokemon(pl)

\* the top of the battle loop
AtLoopTop ==
    /\ pc = "idle" /\ ~is_battle_over
    /\ \A side \in Sides : ~MustSwitch(player[side])

\* battle.player2.choose_action(battle), which returns or raises
CallChooseAction(side) ==
    /\ AtLoopTop
    /\ \E a \in ChooseAction(Battle, side, ai_difficulty) :
          ret' = [op |-> "choose_action", side |-> side, action |-> a]
    /\ UNCHANGED <<battleVars, mon, calls, dmg, ai_difficulty, serverVars, netVars>>

\* CallChooseSwitch with a choose_switch that makes the switch it returns
CallChooseSwitchApplied(side) ==
    /\ pc = "idle"
    /\ LET action == ChooseSwitch(player[side], ai_difficulty)
       IN /\ ret' = [op |-> "choose_switch", side |-> side, action |-> action]
          /\ player' = IF action.type = "switch"
                       THEN [player EXCEPT ![side] =
                               SwitchPokemon(player[side], action.pokemon_index)]
                       ELSE player
    /\ UNCHANGED <<current_turn, is_battle_over, winner, battle_log, pc, actions,
                   mon, calls, dmg, ai_difficulty, serverVars, netVars>>

\* battle.player2.choose_switch()
CallChooseSwitch(side) ==
    /\ pc = "idle"
    /\ ret' = [op |-> "choose_switch", side |-> side,
               action |-> ChooseSwitch(player[side], ai_difficulty)]
    /\ UNCHANGED <<battleVars, mon, calls, dmg, ai_difficulty, serverVars, netVars>>

\* the moves a HumanPlayer's choose_action is given here
HumanActions(pl) == RandomMove(pl)

\* one pass of the loop up to execute_turn: both choose_action calls, then
\* the turn begins; an exception of choose_action ends the program
MainTurn ==
    /\ AtLoopTop
    /\ current_turn < MaxAITurns
    /\ \E a1 \in HumanActions(player[1]),
          a2 \in ChooseAction(Battle, 2, ai_difficulty) \ {Raise} :
          ExecuteTurnBegin(a1, a2)

\* after the turn: player1 chooses its replacement
MainSwitchHuman(index) ==
    /\ pc = "idle" /\ current_turn > 0
    /\ MustSwitch(player[1])
    /\ SwitchPokemonRet(player[1], index)
    /\ player' = [player EXCEPT ![1] = SwitchPokemon(player[1], index)]
    /\ UNCHANGED <<current_turn, is_battle_over, winner, battle_log, pc, actions,
                   monVars, dmg, ai_difficulty, serverVars, netVars>>

\* after the turn: the AIPlayer's first Pokemon that has not fainted comes in
MainSwitchAI ==
    /\ pc = "idle" /\ current_turn > 0
    /\ ~MustSwitch(player[1])
    /\ MustSwitch(player[2])
    /\ LET i == CHOOSE k \in DOMAIN player[2].team :
                  /\ ~IsFainted(player[2].team[k])
                  /\ \A j \in DOMAIN player[2].team :
                        ~IsFainted(player[2].team[j]) => k <= j
       IN player' = [player EXCEPT ![2] = SwitchPokemon(player[2], i)]
    /\ UNCHANGED <<current_turn, is_battle_over, winner, battle_log, pc, actions,
                   monVars, dmg, ai_difficulty, serverVars, netVars>>

AINext ==
    \/ CallChooseAction(2)
    \/ CallChooseSwitch(2)
    \/ MainTurn
    \/ ExecuteNextAction
    \/ ExecuteTurnEnd
    \/ \E index \in Indexes(player[1]) : MainSwitchHuman(index)
    \/ MainSwitchAI

AISpec == AIInit /\ [][AINext]_vars

---------------------------------------------------------------------------
(* Method-level specification of AIPlayer.choose_action: the players of     *)
(* both slots of a Battle in progress are AIPlayers of one tier and are    *)
(* asked for their action                                                  *)

\* the teams of the AIPlayer whose state is varied, as species ids
PolicyTeams == {<<3, 1>>, <<4, 5>>, <<2, 4>>}

\* the HP a Pokemon may have come to: fainted, 3 HP, 20%, 27% and 35% of its
\* HP, untouched
PolicyHp(p) == {0, 3, (p.max_hp * 20) \div 100, (p.max_hp * 27) \div 100,
                (p.max_hp * 35) \div 100, p.max_hp}

\* one slot has a team of two at level 50 in any state with its active
\* Pokemon alive, the other slot an untouched Gastly or Charmander
PolicyInit ==
    /\ \E slot \in Sides, ids \in PolicyTeams, active \in {0, 1}, potions \in {0, 3},
          other \in {2, 3} :
       \E hp \in [{0, 1} -> 0..200] :
          LET team == [i \in {0, 1} |->
                         [NewPokemon(ids[i + 1], 50) EXCEPT !.current_hp = hp[i]]]
              varied == [team |-> team, active_pokemon_index |-> active,
                         potions |-> potions]
              fixed == [team |-> [i \in {0} |-> NewPokemon(other, 50)],
                        active_pokemon_index |-> 0, potions |-> 3]
          IN /\ \A i \in {0, 1} : hp[i] \in PolicyHp(team[i])
             /\ hp[active] > 0
             /\ player = [side \in Sides |-> IF side = slot THEN varied ELSE fixed]
    /\ ai_difficulty \in Difficulties
    /\ current_turn = 0
    /\ is_battle_over = FALSE
    /\ winner = 0
    /\ battle_log = <<>>
    /\ pc = "idle"
    /\ actions = <<>>
    /\ mon = NoMon /\ ret = NoMon /\ calls = 0
    /\ dmg = NoDmg
    /\ ServerUnused /\ NetUnused

PolicyNext == \E side \in Sides : CallChooseAction(side)

PolicySpec == PolicyInit /\ [][PolicyNext]_vars

---------------------------------------------------------------------------
(* network.py: PokemonServer._handle_team_selection, from the two team      *)
(* replies to the start of the battle or to _end_battle                    *)

\* a reply without "team", or no reply
NoTeam == [has_team |-> FALSE, team |-> <<>>]

\* a reply with the "team" list team_data
TeamReply(team_data) == [has_team |-> TRUE, team |-> team_data]

\* the entries of a team reply: two species of POKEMON_DATA and an id that
\* is not in it
TeamEntries == {[id |-> 1, level |-> 1], [id |-> 3, level |-> 1], [id |-> 99, level |-> 1]}

\* the "team" lists of the replies: up to two entries, and lists of six and
\* of seven entries
TeamData ==
    UNION {[1..n -> TeamEntries] : n \in 0..2}
    \cup {[i \in 1..6 |-> [id |-> 1, level |-> 1]],
          [i \in 1..7 |-> [id |-> IF i = 7 THEN 3 ELSE 1, level |-> 1]]}

TeamReplies == {NoTeam} \cup {TeamReply(team_data) : team_data \in TeamData}

\* Player.__init__
EmptyPlayer == [team |-> <<>>, active_pokemon_index |-> 0, potions |-> 3]

\* _create_team_from_data on a fresh player: the first six entries, those
\* whose Pokemon(...) raises left out by the except clause
CreateTeamFromData(team_data) ==
    LET first == SubSeq(team_data, 1, Min(6, Len(team_data)))
        known == SelectSeq(first, LAMBDA e : e.id \in DOMAIN POKEMON_DATA)
    IN [EmptyPlayer EXCEPT !.team =
           [i \in 0..(Len(known) - 1) |-> NewPokemon(known[i + 1].id, known[i + 1].level)]]

TeamSelectionRequest == [type |-> "team_selection"]
BattleOverMessage(message) == [type |-> "battle_over", message |-> message]

\* _end_battle(battle_id, message) before the battle exists
EndBattleWith(message) ==
    /\ wire' = wire \o <<Send(1, TeamSelectionRequest), Send(2, TeamSelectionRequest),
                         Send(1, BattleOverMessage(message)),
                         Send(2, BattleOverMessage(message))>>
    /\ battles' = [battles EXCEPT ![BattleId].status = "completed"]
    /\ run' = "done"
    /\ UNCHANGED player

BuildInit ==
    /\ player = [side \in Sides |-> EmptyPlayer]
    /\ current_turn = 0 /\ is_battle_over = FALSE /\ winner = 0
    /\ battle_log = <<>> /\ pc = "idle" /\ actions = <<>>
    /\ mon = NoMon /\ ret = NoMon /\ calls = 0
    /\ dmg = NoDmg /\ ai_difficulty = "none"
    /\ run = "team_selection"
    /\ \E host \in TeamReplies, challenger \in TeamReplies :
          replies = [turn |-> 0, host_team_data |-> host,
                     challenger_team_data |-> challenger]
    /\ wire = <<>>
    /\ battles = BattleId :> [host_socket |-> 1, challenger_socket |-> 2,
                              status |-> "waiting"]
    /\ conn = [side \in Sides |-> "open"]
    /\ clients = <<>> /\ worker = <<>> /\ link = <<>>

\* _handle_team_selection, up to the call of _run_battle
HandleTeamSelection ==
    /\ run = "team_selection"
    /\ IF ~replies.host_team_data.has_team
       THEN EndBattleWith("Host disconnected during team selection")
       ELSE IF ~replies.challenger_team_data.has_team
       THEN EndBattleWith("Challenger disconnected during team selection")
       ELSE LET host_player == CreateTeamFromData(replies.host_team_data.team)
                challenger_player == CreateTeamFromData(replies.challenger_team_data.team)
            IN IF TeamLen(host_player) = 0 \/ TeamLen(challenger_player) = 0
               THEN EndBattleWith("Invalid team selection")
               ELSE /\ player' = <<host_player, challenger_player>>
                    /\ battles' = [battles EXCEPT ![BattleId].status = "in_progress"]
                    /\ wire' = wire \o <<Send(1, TeamSelectionRequest),
                                         Send(2, TeamSelectionRequest)>>
                    /\ run' = "loop"
    /\ UNCHANGED <<current_turn, is_battle_over, winner, battle_log, pc, actions,
                   monVars, dmg, ai_difficulty, replies, clients, worker, conn, link>>

BuildNext == HandleTeamSelection \/ Cleanup

BuildSpec == BuildInit /\ [][BuildNext]_vars

---------------------------------------------------------------------------
(* Specification of draining and recoiling moves: turns of a battle in      *)
(* progress between Bulbasaur (Absorb) and Rattata (DoubleEdge, Toxic),    *)
(* each with a Rattata behind it                                           *)

\* the HP a Pokemon may have come to: nearly fainted, hurt, nearly full, full
DrainHp(p) == {1, p.max_hp \div 2, p.max_hp - 2, p.max_hp}

DrainInit ==
    /\ \E h1 \in DrainHp(NewPokemon(6, 10)), h2 \in DrainHp(NewPokemon(1, 10)) :
          player = <<[team |-> [i \in {0, 1} |->
                                  IF i = 0 THEN [NewPokemon(6, 10) EXCEPT !.current_hp = h1]
                                  ELSE NewPokemon(1, 10)],
                      active_pokemon_index |-> 0, potions |-> 3],
                     [team |-> [i \in {0, 1} |->
                                  IF i = 0 THEN [NewPokemon(1, 10) EXCEPT !.current_hp = h2]
                                  ELSE NewPokemon(1, 10)],
                      active_pokemon_index |-> 0, potions |-> 3]>>
    /\ current_turn = 0
    /\ is_battle_over = FALSE
    /\ winner = 0
    /\ battle_log = <<>>
    /\ pc = "idle"
    /\ actions = <<>>
    /\ mon = NoMon /\ ret = NoMon /\ calls = 0
    /\ dmg = NoDmg /\ ai_difficulty = "none"
    /\ ServerUnused /\ NetUnused

DrainNext ==
    \/ \E a2 \in {[type |-> "pass"], [type |-> "move", move |-> "DoubleEdge"],
                    [type |-> "move", move |-> "Toxic"]} :
          ExecuteTurnBegin([type |-> "move", move |-> "Absorb"], a2)
    \/ ExecuteNextAction
    \/ ExecuteTurnEnd
    \/ \E side \in Sides : ForcedSwitch(side, NoReply)

DrainSpec == DrainInit /\ [][DrainNext]_vars

---------------------------------------------------------------------------
(* Specification of everything that restores HP or changes the active      *)
(* Pokemon: turns of the same battle in which Bulbasaur's side drains,     *)
(* recovers, switches or uses a potion, Rattata's side hits with recoil,   *)
(* switches or uses a potion, and forced switches follow a faint           *)

\* switches and potions aimed at each Pokemon of the team, fainted or not
BenchActions(pl) ==
    {[type |-> "switch", pokemon_index |-> i] : i \in DOMAIN pl.team}
    \cup {[type |-> "item", item |-> "potion", target_index |-> i] : i \in DOMAIN pl.team}

FaintNext ==
    \/ \E a1 \in {[type |-> "move", move |-> "Absorb"],
                    [type |-> "move", move |-> "Recover"]} \cup BenchActions(player[1]),
          a2 \in {[type |-> "move", move |-> "DoubleEdge"]} \cup BenchActions(player[2]) :
          ExecuteTurnBegin(a1, a2)
    \/ ExecuteNextAction
    \/ ExecuteTurnEnd
    \/ \E side \in Sides :
          \E reply \in {NoReply} \cup {[type |-> "switch", pokemon_index |-> i] :
                                          i \in DOMAIN player[side].team} :
             ForcedSwitch(side, reply)

FaintSpec == DrainInit /\ [][FaintNext]_vars

---------------------------------------------------------------------------
(* Properties *)

Team(side) == player[side].team
UsableCount(pl) == Cardinality({i \in DOMAIN pl.team : ~IsFainted(pl.team[i])})
Lines == Range(battle_log)

\* the log has a "<defender> took <n> damage!" line for a Pokemon of `side`
TookDamage(log, side) ==
    \E i \in DOMAIN log :
        Len(log[i]) = 3 /\ log[i][1] = "took_damage" /\ log[i][2] = side

\* C1: every Pokemon of both sides has 0 <= current_hp <= max_hp, in every state
\* reached by turns, potions and forced switches.
C1_HpWithinBounds ==
    \A side \in Sides : \A i \in DOMAIN Team(side) :
        /\ 0 <= Team(side)[i].current_hp
        /\ Team(side)[i].current_hp <= Team(side)[i].max_hp

\* a potion has been used, a Pokemon has been knocked out and another is damaged
C1_Witness ==
    /\ \E side \in Sides : player[side].potions < 3
    /\ \E side \in Sides : \E i \in DOMAIN Team(side) : Team(side)[i].current_hp = 0
    /\ \E side \in Sides : \E i \in DOMAIN Team(side) :
          0 < Team(side)[i].current_hp /\ Team(side)[i].current_hp < Team(side)[i].max_hp

\* C2: modify_stat_stage keeps every one of the seven stages within [-6, 6] and
\* returns new_stage - old_stage (0 at a saturated boundary or for an unknown stat).
C2_StagesClamped ==
    [][ /\ \A s \in StatNames : mon'.stat_stages[s] \in -6..6
        /\ DOMAIN mon'.stat_stages = StatNames
        /\ ret'.op = "modify_stat_stage" =>
              /\ ret'.stat \in StatNames =>
                    ret'.value = mon'.stat_stages[ret'.stat] - mon.stat_stages[ret'.stat]
              /\ ret'.stat \notin StatNames => ret'.value = 0 /\ mon' = mon
              /\ \A s \in StatNames \ {ret'.stat} : mon'.stat_stages[s] = mon.stat_stages[s]
      ]_vars

\* a call that asked for +1 at the saturated upper boundary and changed nothing,
\* after a call that was cut short at the lower boundary of another stat
C2_Witness ==
    /\ ret.op = "modify_stat_stage"
    /\ ret.stat = "speed" /\ ret.stages = 1 /\ ret.value = 0
    /\ mon.stat_stages["speed"] = 6
    /\ mon.stat_stages["evasion"] = -6

\* C3: after every execute_turn, is_battle_over holds iff some side has no
\* non-fainted Pokemon; the winner is None iff both sides have none, and otherwise
\* it is the side that still has one while the other has none.
C3_WinnerMatchesRosters ==
    (pc = "idle" /\ current_turn > 0) =>
        /\ is_battle_over <=> \E side \in Sides : ~HasUsablePokemon(player[side])
        /\ is_battle_over =>
              /\ winner = 0 <=> \A side \in Sides : ~HasUsablePokemon(player[side])
              /\ winner # 0 => /\ winner \in Sides
                               /\ HasUsablePokemon(player[winner])
                               /\ ~HasUsablePokemon(player[Other(winner)])
        /\ ~is_battle_over => winner = 0

\* a turn has ended in a draw
C3_Witness ==
    /\ pc = "idle" /\ current_turn > 0
    /\ is_battle_over /\ winner = 0
    /\ \A side \in Sides : ~HasUsablePokemon(player[side])

\* C4: once is_battle_over is true it stays true, the winner does not change, and
\* no later step (of any execute_turn) changes a Pokemon, an active index or a
\* potion count.
C4_TerminalAbsorbing ==
    [][ is_battle_over =>
            /\ is_battle_over'
            /\ winner' = winner
            /\ player' = player
      ]_vars

\* a whole execute_turn has run after the battle ended on an earlier turn
C4_Witness ==
    /\ pc = "idle"
    /\ is_battle_over /\ winner # 0
    /\ current_turn = 2
    /\ battle_log = <<>>

\* the step that executes the first of two ordered actions
FirstOfTwo == pc = "acting" /\ Len(actions) = 2 /\ actions' = Tail(actions)

\* C5 as stated: if the first executed action leaves a side without a non-fainted
\* Pokemon, the battle ends at once with the other side as winner, and neither the
\* second action nor the end-of-turn damage is applied.
C5_Original ==
    [][ /\ FirstOfTwo =>
              \A side \in Sides :
                  ~HasUsablePokemon(player'[side]) =>
                      is_battle_over' /\ winner' = Other(side)
        /\ (pc = "acting" /\ is_battle_over) =>
              player' = player /\ pc' = "idle"
      ]_vars

\* C5 as amended: the battle ends at once; the winner is the other side when only
\* one side is left without a non-fainted Pokemon, and there is no winner when the
\* action (by its recoil) leaves both sides without one; neither the second action
\* nor the end-of-turn damage is applied.
C5_EndsAfterFirstAction ==
    [][ /\ FirstOfTwo =>
              \A side \in Sides :
                  ~HasUsablePokemon(player'[side]) =>
                      /\ is_battle_over'
                      /\ winner' = IF HasUsablePokemon(player'[Other(side)])
                                   THEN Other(side) ELSE 0
        /\ (pc = "acting" /\ is_battle_over) =>
              /\ player' = player /\ pc' = "idle"
              /\ is_battle_over' /\ winner' = winner
      ]_vars

\* the first action of this turn has ended the battle with a winner while the
\* second action is still in the list
C5_Witness ==
    /\ pc = "acting" /\ Len(actions) = 1
    /\ is_battle_over /\ winner # 0
    /\ <<"won", winner>> \in Lines
    /\ actions[1].action.type = "move"

\* the active Pokemon is the side's last one and its burn or poison damage at the
\* end of this turn is at least its remaining HP
LastOneDoomed(pl) ==
    LET p == ActivePokemon(pl) IN
    /\ ~IsFainted(p)
    /\ UsableCount(pl) = 1
    /\ \/ p.status = "burned" /\ p.current_hp <= Max(1, p.max_hp \div 16)
       \/ p.status = "poisoned" /\ p.current_hp <= Max(1, p.max_hp \div 8)

\* C6: when the end-of-turn phase knocks out the last Pokemon of both sides by
\* burn or poison damage, the battle ends as a draw.
C6_DrawAtEndOfTurn ==
    [][ ( /\ pc = "acting" /\ pc' = "idle"
          /\ ~is_battle_over
          /\ \A side \in Sides : LastOneDoomed(player[side]) )
        => /\ is_battle_over'
           /\ winner' = 0
           /\ \A side \in Sides : ~HasUsablePokemon(player'[side])
      ]_vars

\* both active Pokemon were knocked out by poison in the same end-of-turn phase
C6_Witness ==
    /\ pc = "idle" /\ is_battle_over /\ winner = 0
    /\ <<"poisoned", 1>> \in Lines /\ <<"poisoned", 2>> \in Lines
    /\ <<"fainted", 1>> \in Lines /\ <<"fainted", 2>> \in Lines
    /\ <<"draw">> \in Lines

\* the step that orders the two actions of a turn, neither of them a pass
OrdersTwo == pc = "idle" /\ pc' = "acting" /\ Len(actions') = 2

\* the step that executes a move of `side`
MoveStep(side) ==
    /\ pc = "acting" /\ actions # <<>> /\ actions' = Tail(actions)
    /\ Head(actions).side = side
    /\ Head(actions).action.type = "move"

\* C7: when one side submits switch or item and the other submits move, the
\* switch or item is executed first, whichever side it comes from; a move made
\* against a side that has switched in this turn changes no Pokemon of that side
\* but the one switched in.
C7_SwitchAndItemFirst ==
    [][ /\ OrdersTwo =>
              ~ /\ actions'[1].action.type = "move"
                /\ actions'[2].action.type \in {"switch", "item"}
        /\ \A side \in Sides :
              (MoveStep(side) /\ <<"sent_out", Other(side)>> \in Lines) =>
                  /\ player'[Other(side)].active_pokemon_index
                        = player[Other(side)].active_pokemon_index
                  /\ \A i \in DOMAIN Team(Other(side)) :
                        i # player[Other(side)].active_pokemon_index =>
                            player'[Other(side)].team[i] = Team(Other(side))[i]
      ]_vars

\* side 1 switched to its second Pokemon and side 2, whose active Pokemon is
\* faster than the one withdrawn, has hit the Pokemon switched in
C7_Witness ==
    /\ pc = "acting" /\ actions = <<>>
    /\ Len(battle_log) >= 2
    /\ battle_log[1] = <<"withdrew", 1>> /\ battle_log[2] = <<"sent_out", 1>>
    /\ <<"used", 2>> \in Lines /\ TookDamage(battle_log, 1)
    /\ player[1].active_pokemon_index = 1
    /\ Team(1)[1].current_hp < Team(1)[1].max_hp
    /\ Team(1)[0].current_hp = Team(1)[0].max_hp
    /\ GetModifiedStat(ActivePokemon(player[2]), "speed") > GetModifiedStat(Team(1)[0], "speed")

\* the effective speed the claim speaks of: the stage multiplier applied to the
\* speed stat, halved by paralysis, rounded down
C8_EffectiveSpeed(p) ==
    LET stage == p.stat_stages["speed"]
        twice == IF p.status = "paralyzed" THEN 2 ELSE 1
    IN IF stage >= 0 THEN (p.speed * (2 + stage)) \div (2 * twice)
       ELSE (p.speed * 2) \div ((2 - stage) * twice)

\* C8: when both sides submit move, the move of strictly higher priority goes
\* first; at equal priority the side whose active Pokemon has the strictly higher
\* effective speed at the start of the turn goes first; at equal priority and
\* equal effective speed both orders are possible.
C8_MoveOrder ==
    [][ ( /\ OrdersTwo
          /\ actions'[1].action.type = "move"
          /\ actions'[2].action.type = "move" )
        => LET first == actions'[1].side
               a1 == IF first = 1 THEN actions'[1].action ELSE actions'[2].action
               a2 == IF first = 2 THEN actions'[1].action ELSE actions'[2].action
               prio1 == MovePriority(a1)
               prio2 == MovePriority(a2)
               speed1 == C8_EffectiveSpeed(ActivePokemon(player[1]))
               speed2 == C8_EffectiveSpeed(ActivePokemon(player[2]))
               orders == DetermineActionOrder(Battle, a1, a2)
           IN /\ actions'[2].side = Other(first)
              /\ prio1 > prio2 => first = 1 /\ Cardinality(orders) = 1
              /\ prio2 > prio1 => first = 2 /\ Cardinality(orders) = 1
              /\ (prio1 = prio2 /\ speed1 > speed2) => first = 1 /\ Cardinality(orders) = 1
              /\ (prio1 = prio2 /\ speed2 > speed1) => first = 2 /\ Cardinality(orders) = 1
              /\ (prio1 = prio2 /\ speed1 = speed2) =>
                    orders = {<<Entry(1, a1), Entry(2, a2)>>, <<Entry(2, a2), Entry(1, a1)>>}
      ]_vars

\* two moves of equal priority from equally fast Pokemon, ordered with side 2 first
C8_Witness ==
    /\ pc = "acting" /\ Len(actions) = 2 /\ battle_log = <<>>
    /\ actions[1].side = 2
    /\ actions[1].action.type = "move" /\ actions[2].action.type = "move"
    /\ MovePriority(actions[1].action) = MovePriority(actions[2].action)
    /\ GetModifiedStat(ActivePokemon(player[1]), "speed")
          = GetModifiedStat(ActivePokemon(player[2]), "speed")

\* the scenario of C9: level 50, power 80, physical, attack 100 against defense
\* 100, neutral effectiveness, no stages, no critical hit, variance 1.0
C9_Scenario ==
    /\ dmg.op = "calculate_damage"
    /\ dmg.attacker.level = 50
    /\ dmg.move.power = 80 /\ dmg.move.category = "Physical"
    /\ dmg.attacker.attack = 100 /\ dmg.defender.defense = 100
    /\ \A s \in StatNames : dmg.attacker.stat_stages[s] = 0 /\ dmg.defender.stat_stages[s] = 0
    /\ dmg.attacker.status = "none" /\ dmg.defender.status = "none"
    /\ Effectiveness(dmg.move.type, dmg.defender.types) = Pow2(Len(dmg.defender.types))
    /\ ~dmg.r.crit /\ dmg.r.variance = 100

C9_Stab == dmg.move.type \in Range(dmg.attacker.types)

\* C9 as stated: in the scenario the damage is 42 without the same-type bonus and
\* 63 with it.
C9_Original ==
    C9_Scenario => dmg.damage = IF C9_Stab THEN 63 ELSE 42

\* C9 as amended: in the scenario the damage is 37 without the same-type bonus
\* (int(35.2 + 2)) and 55 with it (int(37.2 * 1.5)).
C9_ScenarioDamage ==
    C9_Scenario => dmg.damage = IF C9_Stab THEN 55 ELSE 37

\* the scenario with the same-type bonus
C9_Witness == C9_Scenario /\ C9_Stab /\ dmg.damage = 55

\* C10: a Physical or Special move that connects while the product of the
\* type-effectiveness values over the defender's types is 0 leaves the defender's
\* current_hp unchanged.
C10_ImmunityNoDamage ==
    [][ \A side \in Sides :
          LET defender == ActivePokemon(player[Other(side)])
              index == player[Other(side)].active_pokemon_index
              name == Head(actions).action.move
          IN ( /\ MoveStep(side)
               /\ name \in MoveNames
               /\ MOVE_DATA[name].category \in {"Physical", "Special"}
               /\ Effectiveness(MOVE_DATA[name].type, defender.types) = 0
               /\ TookDamage(battle_log', Other(side)) )
             => player'[Other(side)].team[index].current_hp = defender.current_hp
      ]_vars

\* the amounts of the "<defender> took <n> damage!" lines for a Pokemon of `side`
DamageAmounts(log, side) ==
    {log[i][3] : i \in {j \in DOMAIN log :
        Len(log[j]) = 3 /\ log[j][1] = "took_damage" /\ log[j][2] = side}}

\* C11: a Physical or Special move with power > 0 that connects against a
\* defender whose type-effectiveness product is not 0 lowers the defender's
\* current_hp by at least 1, and the amount take_damage returns (the one in the
\* log line) is never 0.
C11_MinimumDamage ==
    [][ \A side \in Sides :
          LET defender == ActivePokemon(player[Other(side)])
              index == player[Other(side)].active_pokemon_index
              name == Head(actions).action.move
          IN ( /\ MoveStep(side)
               /\ name \in MoveNames
               /\ MOVE_DATA[name].category \in {"Physical", "Special"}
               /\ MOVE_DATA[name].power > 0
               /\ Effectiveness(MOVE_DATA[name].type, defender.types) # 0
               /\ TookDamage(battle_log', Other(side)) )
             => /\ ~IsFainted(defender)
                /\ player'[Other(side)].team[index].current_hp <= defender.current_hp - 1
                /\ \A n \in DamageAmounts(battle_log', Other(side)) : n >= 1
      ]_vars

\* a move of side 2 that was not a critical hit has knocked out a Pokemon of
\* side 1 that carried a status, before side 1 could move
C11_Witness ==
    /\ pc = "acting"
    /\ TookDamage(battle_log, 1) /\ <<"fainted", 1>> \in Lines
    /\ <<"critical", 2>> \notin Lines
    /\ <<"used", 1>> \notin Lines
    /\ \E i \in DOMAIN Team(1) : Team(1)[i].status # "none" /\ IsFainted(Team(1)[i])

\* C12: take_damage returns the decrease of current_hp the call caused, for every
\* current_hp and amount, including an amount above the remaining HP.
C12_ReturnsAmountApplied ==
    [][ ret'.op = "take_damage" => ret'.value = mon.current_hp - mon'.current_hp ]_vars

\* C13: heal returns exactly the increase of current_hp it caused: 0, with the
\* Pokemon unchanged, when it is fainted; otherwise min(amount, max_hp -
\* current_hp), with current_hp raised by that value and nothing else changed.
C13_HealReturnsIncrease ==
    [][ ret'.op = "heal" =>
            /\ ret'.value = mon'.current_hp - mon.current_hp
            /\ IsFainted(mon) => ret'.value = 0 /\ mon' = mon
            /\ ~IsFainted(mon) =>
                  ret'.value = Min(ret'.amount, mon.max_hp - mon.current_hp)
            /\ mon' = [mon EXCEPT !.current_hp = mon.current_hp + ret'.value]
      ]_vars

\* heal(20) on a damaged Pokemon raised its HP to max_hp and returned less than 20
C13_Witness ==
    /\ ret.op = "heal" /\ ret.amount = 20
    /\ 0 < ret.value /\ ret.value < 20
    /\ mon.current_hp = mon.max_hp

\* the cases in which the claim says apply_status fails
C14_Blocked(p, status) ==
    \/ p.status # "none"
    \/ status = "paralyzed" /\ "Electric" \in Range(p.types)
    \/ status = "poisoned" /\ "Poison" \in Range(p.types)
    \/ status = "poisoned" /\ "Steel" \in Range(p.types)
    \/ status = "burned" /\ "Fire" \in Range(p.types)

\* C14: apply_status returns false and leaves the Pokemon unchanged when a status
\* is already present or the type immunity applies (Electric against paralyzed,
\* Poison or Steel against poisoned, Fire against burned), and otherwise sets the
\* status and returns true; so over any sequence of calls a status, once set, is
\* never replaced, and no Electric type is paralyzed, no Poison or Steel type
\* poisoned, no Fire type burned.
C14_StatusOnlyOnce ==
    [][ /\ ret'.op = "apply_status" =>
              /\ C14_Blocked(mon, ret'.status) => ret'.value = FALSE /\ mon' = mon
              /\ ~C14_Blocked(mon, ret'.status) =>
                    /\ ret'.value = TRUE
                    /\ mon' = [mon EXCEPT !.status = ret'.status]
        /\ mon.status # "none" => mon'.status = mon.status
        /\ ~(mon'.status = "paralyzed" /\ "Electric" \in Range(mon'.types))
        /\ ~(mon'.status = "poisoned" /\ "Poison" \in Range(mon'.types))
        /\ ~(mon'.status = "poisoned" /\ "Steel" \in Range(mon'.types))
        /\ ~(mon'.status = "burned" /\ "Fire" \in Range(mon'.types))
      ]_vars

\* apply_status("poisoned") has returned false on a burned Pokemon that has no
\* immunity to poison
C14_Witness ==
    /\ ret.op = "apply_status" /\ ret.status = "poisoned" /\ ret.value = FALSE
    /\ mon.status = "burned"
    /\ "Poison" \notin Range(mon.types) /\ "Steel" \notin Range(mon.types)

\* the step that executes a switch action of `side`
SwitchStep(side) ==
    /\ pc = "acting" /\ ~is_battle_over
    /\ actions # <<>> /\ actions' = Tail(actions)
    /\ Head(actions).side = side
    /\ Head(actions).action.type = "switch"

\* C15: a switch action sets the acting side's active index to the requested
\* index iff 0 <= index < team size and the target is not fainted, changing
\* nothing else of the side; for any other index the side's active index, roster
\* and potion count are unchanged and a failure line is logged.
C15_SwitchLegality ==
    [][ \A side \in Sides :
          SwitchStep(side) =>
            LET pl == player[side]
                index == Head(actions).action.pokemon_index
                legal == /\ 0 <= index /\ index < TeamLen(pl)
                         /\ pl.team[index].current_hp > 0
            IN /\ legal =>
                     /\ player'[side] = [pl EXCEPT !.active_pokemon_index = index]
                     /\ battle_log' = battle_log \o <<<<"withdrew", side>>, <<"sent_out", side>>>>
               /\ ~legal =>
                     /\ player'[side] = pl
                     /\ battle_log' = Append(battle_log, <<"switch_failed", side>>)
               /\ player'[Other(side)] = player[Other(side)]
      ]_vars

\* in one turn side 1 has switched to its second Pokemon and a switch of side 2
\* has failed, and a Pokemon of side 1 is fainted
C15_Witness ==
    /\ pc = "acting" /\ actions = <<>>
    /\ <<"sent_out", 1>> \in Lines /\ <<"switch_failed", 2>> \in Lines
    /\ player[1].active_pokemon_index = 1
    /\ IsFainted(Team(1)[0])

\* C16: a potion action succeeds iff the side holds at least 1 potion, the target
\* index is in range, and the target is not fainted and below max_hp; on success
\* the target's HP rises by min(20, max_hp - current_hp) and the potion count
\* drops by exactly 1, on failure the side is unchanged; over any sequence of
\* item actions and hits the potion count never increases and stays in [0, 3].
C16_PotionRule ==
    [][ /\ (ret'.op = "execute_item" /\ ret'.item = "potion") =>
              LET side == ret'.side
                  index == ret'.target_index
                  pl == player[side]
                  legal == /\ pl.potions >= 1
                           /\ 0 <= index /\ index < TeamLen(pl)
                           /\ pl.team[index].current_hp > 0
                           /\ pl.team[index].current_hp < pl.team[index].max_hp
              IN /\ legal =>
                       /\ player'[side] =
                             [pl EXCEPT !.team[index].current_hp =
                                            @ + Min(20, pl.team[index].max_hp - @),
                                        !.potions = @ - 1]
                       /\ <<"used_potion", side>> \in Range(battle_log')
                 /\ ~legal =>
                       /\ player'[side] = pl
                       /\ battle_log' = <<<<"potion_failed", side>>>>
                 /\ player'[Other(side)] = player[Other(side)]
        /\ \A side \in Sides :
              /\ player'[side].potions <= player[side].potions
              /\ player'[side].potions \in 0..3
      ]_vars

\* a potion action has failed only because no potion is left: its target is
\* alive and below max_hp
C16_Witness ==
    /\ ret.op = "execute_item" /\ ret.item = "potion"
    /\ battle_log = <<<<"potion_failed", ret.side>>>>
    /\ player[ret.side].potions = 0
    /\ ret.target_index \in DOMAIN Team(ret.side)
    /\ Team(ret.side)[ret.target_index].current_hp > 0
    /\ Team(ret.side)[ret.target_index].current_hp < Team(ret.side)[ret.target_index].max_hp

\* the HP the end-of-turn phase takes from Pokemon i of the player pl
C17_Loss(pl, i) ==
    LET p == pl.team[i]
        hit == i = pl.active_pokemon_index /\ p.current_hp > 0
    IN IF hit /\ p.status = "burned" THEN Min(p.current_hp, Max(1, p.max_hp \div 16))
       ELSE IF hit /\ p.status = "poisoned" THEN Min(p.current_hp, Max(1, p.max_hp \div 8))
       ELSE 0

\* C17: at the end of every turn in which the battle has not ended, the active,
\* non-fainted Pokemon of each side loses min(current_hp, max(1, max_hp div 16))
\* HP if burned and min(current_hp, max(1, max_hp div 8)) if poisoned, in every
\* turn; benched or fainted Pokemon and those with another status or none lose
\* nothing; nothing else changes, and nothing at all once the battle has ended.
C17_EndOfTurnDamage ==
    [][ (pc = "acting" /\ pc' = "idle") =>
          \A side \in Sides :
            /\ DOMAIN player'[side].team = DOMAIN Team(side)
            /\ player'[side].active_pokemon_index = player[side].active_pokemon_index
            /\ player'[side].potions = player[side].potions
            /\ \A i \in DOMAIN Team(side) :
                  player'[side].team[i] =
                      [Team(side)[i] EXCEPT !.current_hp =
                          @ - (IF is_battle_over THEN 0 ELSE C17_Loss(player[side], i))]
      ]_vars

\* the burned Pokemon with max_hp 160 has lost 10 HP at the end of each of two
\* turns, while its poisoned team mate on the bench has lost none
C17_Witness ==
    /\ pc = "idle" /\ current_turn = 2
    /\ player[1].active_pokemon_index = 1
    /\ Team(1)[1].max_hp = 160 /\ Team(1)[1].status = "burned"
    /\ Team(1)[1].current_hp = 140
    /\ Team(1)[0].status = "poisoned" /\ Team(1)[0].current_hp = Team(1)[0].max_hp

\* C18: whenever the coordinator has requested a turn action (at the start of
\* every turn of a battle that is not over), the active index of each side
\* refers to a non-fainted Pokemon, whatever the sides replied to earlier action
\* and forced-switch requests.
C18_ActiveAliveAtRequest ==
    run \in {"await_host", "await_challenger"} =>
        \A side \in Sides :
            /\ HasActive(player[side])
            /\ ~IsFainted(ActivePokemon(player[side]))

\* the position of _run_battle while it waits for the reply to a request_switch
AwaitSwitch(side) == IF side = 1 THEN "await_switch_host" ELSE "await_switch_challenger"

\* C19: when a forced-switch request is answered by a missing reply, a reply
\* without an action, or an action whose type is not switch, the coordinator
\* does not wait for that side again and sets its active index to the lowest
\* roster index that holds a non-fainted Pokemon, changing nothing else.
C19_ForcedSwitchFallback ==
    [][ \A side \in Sides :
          (run = AwaitSwitch(side) /\ Len(wire') > Len(wire)) =>
            LET reply == wire'[Len(wire) + 1].data
                pl == player[side]
            IN reply.type # "switch" =>
                 /\ wire'[Len(wire) + 1] = Recv(side, reply)
                 /\ run' # AwaitSwitch(side)
                 /\ \A i \in (Len(wire) + 2)..Len(wire') : wire'[i].side # side
                 /\ ~IsFainted(ActivePokemon(player'[side]))
                 /\ \A j \in DOMAIN pl.team :
                       j < player'[side].active_pokemon_index => IsFainted(pl.team[j])
                 /\ player'[side] =
                       [pl EXCEPT !.active_pokemon_index = player'[side].active_pokemon_index]
                 /\ player'[Other(side)] = player[Other(side)]
      ]_vars

\* the host's second Pokemon fainted after it was switched in, its third is
\* alive, the request_switch was left unanswered, and the first is active again
C19_Witness ==
    /\ player[1].active_pokemon_index = 0
    /\ IsFainted(Team(1)[1]) /\ ~IsFainted(Team(1)[2])
    /\ \E i \in 1..(Len(wire) - 1) :
          wire[i] = Send(1, RequestSwitch) /\ wire[i + 1] = Recv(1, NoReply)

\* event i of the current iteration is a request sent to `side`
C20_IsRequest(i, side) ==
    /\ wire[i].ev = "send" /\ wire[i].side = side
    /\ wire[i].msg.type \in {"request_action", "request_switch"}

\* event i of the current iteration is the reply (or its absence) of `side`
C20_IsReply(i, side) == wire[i].ev = "recv" /\ wire[i].side = side

\* C20: in every iteration of the battle loop the coordinator sends
\* request_action to the host, receives the host's reply (or finds it missing),
\* only then sends request_action to the challenger and receives its reply, so
\* that at most one request is outstanding; execute_turn runs only after both
\* replies; then exactly one turn_results goes to each side, both with the same
\* log and with battle_over equal to the engine's is_battle_over; a
\* request_switch is sent only after the turn_results and before the next
\* iteration's request_action.
C20_ProtocolOrder ==
    LET n == Len(wire) IN
    /\ n >= 1 => wire[1] = Send(1, RequestAction)
    /\ n >= 2 => C20_IsReply(2, 1)
    /\ n >= 3 => wire[3] = Send(2, RequestAction)
    /\ n >= 4 => C20_IsReply(4, 2)
    /\ n >= 5 =>
          /\ n >= 6
          /\ wire[5] = Send(1, wire[5].msg) /\ wire[6] = Send(2, wire[5].msg)
          /\ wire[5].msg.type = "turn_results"
          /\ wire[5].msg.log = battle_log
          /\ wire[5].msg.battle_over = is_battle_over
    /\ \A i \in 7..n :
          \/ wire[i].ev = "send" /\ wire[i].msg.type \in {"request_switch", "battle_over"}
          \/ \E side \in Sides : C20_IsReply(i, side) /\ wire[i - 1] = Send(side, RequestSwitch)
    /\ \A i \in 1..(n - 1) : \A side \in Sides :
          C20_IsRequest(i, side) => C20_IsReply(i + 1, side)
    /\ \A i \in 1..n : \A side \in Sides :
          C20_IsReply(i, side) => i > 1 /\ C20_IsRequest(i - 1, side)
    /\ pc = "acting" => n = 4
    /\ (run = "execute" /\ replies.turn = current_turn + 1) => n = 4
    /\ run \in {"await_host", "await_challenger"} => n < 5
    /\ run \in {"await_switch_host", "await_switch_challenger", "done"} => n >= 6
    /\ (run = "loop" /\ current_turn > 0) => n >= 6

\* one iteration in which both sides were asked for a forced switch, the host
\* first, after a turn_results that carried log lines
C20_Witness ==
    /\ run = "loop" /\ Len(wire) = 10
    /\ wire[5].msg.log # <<>>
    /\ wire[7] = Send(1, RequestSwitch) /\ wire[9] = Send(2, RequestSwitch)

\* the events of w after the first n are no request_action or request_switch
C21_NoRequestAfter(w, n) ==
    \A i \in (n + 1)..Len(w) :
        ~(w[i].ev = "send" /\ w[i].msg.type \in {"request_action", "request_switch"})

\* C21: once the engine's is_battle_over is set, the coordinator only adds to
\* the messages of the running iteration and adds no request_action or
\* request_switch; when _run_battle has ended the match, the last messages are
\* the turn_results of the final turn (battle_over true) to the host and to the
\* challenger, followed by a battle_over naming the engine's winner (none on a
\* draw) to the host and to the challenger, and the match is marked completed
\* for as long as it is in the registry; and from the moment the flag is set
\* the match is eventually removed from the registry.
C21_MatchEnd ==
    /\ [][ is_battle_over =>
              /\ Len(wire') >= Len(wire)
              /\ SubSeq(wire', 1, Len(wire)) = wire
              /\ C21_NoRequestAfter(wire', Len(wire)) ]_vars
    /\ [](run \in {"done", "cleaned"} =>
            LET n == Len(wire) IN
            /\ is_battle_over
            /\ n >= 4
            /\ wire[n - 3].msg.type = "turn_results" /\ wire[n - 3].msg.battle_over
            /\ wire[n - 3] = Send(1, wire[n - 3].msg)
            /\ wire[n - 2] = Send(2, wire[n - 3].msg)
            /\ wire[n - 1] = Send(1, [type |-> "battle_over", winner |-> winner])
            /\ wire[n] = Send(2, [type |-> "battle_over", winner |-> winner])
            /\ BattleId \in DOMAIN battles => battles[BattleId].status = "completed")
    /\ [](run = "done" => BattleId \in DOMAIN battles)
    /\ (is_battle_over ~> (BattleId \notin DOMAIN battles))

\* the host has won, both sides were told so, and the cleanup thread has
\* removed the match from the registry
C21_Witness ==
    /\ run = "cleaned" /\ winner = 1
    /\ BattleId \notin DOMAIN battles
    /\ wire[Len(wire)] = Send(2, [type |-> "battle_over", winner |-> 1])

\* C22: the coordinator executes no turn of a match after it has found, in the
\* running iteration of the battle loop, that the action reply of a side
\* cannot be received because that side's connection is lost.
C22_LossEndsBattle ==
    [][ current_turn' # current_turn =>
          \A i \in DOMAIN wire : wire[i].ev = "recv" => wire[i].data # Closed ]_vars

\* socket w has been sent a message of this type
WasSent(w, type) == \E i \in DOMAIN worker[w].sent : worker[w].sent[i].type = type

\* joiner j has been sent battle_joined for the match id
C23_Joined(j, id) ==
    [type |-> "battle_joined", battle_id |-> id, host_name |-> battles[id].host_name]
        \in Range(worker[j].sent)

\* host h has been told that j joined, and both were sent team_selection on
\* connections that are open
C23_Completed(h, j) ==
    /\ [type |-> "opponent_joined", opponent_name |-> PlayerName(j)] \in Range(worker[h].sent)
    /\ WasSent(h, "team_selection") /\ WasSent(j, "team_selection")
    /\ conn[h] = "open" /\ conn[j] = "open"

\* C23: whenever a joiner has selected a waiting match and has been sent
\* battle_joined, then eventually, unless the host or the joiner itself goes
\* away, the host's wait has ended, the host has been sent opponent_joined with
\* the joiner's name, and host and joiner have been sent team_selection on
\* connections that are still open.
C23_HandshakeCompletes ==
    \A j \in Workers : \A id \in BattleIds :
        (id \in DOMAIN battles /\ C23_Joined(j, id)) ~>
            \E h \in Workers \ {j} :
                \/ conn[h] = "lost" \/ conn[j] = "lost"
                \/ C23_Completed(h, j)

\* C24: when the connection of a host is lost while the host's worker waits
\* for a challenger, the wait loop eventually ends and the match is no longer
\* offered to joiners (it is gone from the registry or not waiting any more).
C24_HostWaitCancelled ==
    \A h \in Workers :
        (worker[h].pc = "host_wait" /\ conn[h] = "lost") ~>
            (worker[h].pc # "host_wait" /\ worker[h].battle_id \notin AvailableBattles)

\* the sockets in self.clients
C25_Registered == {clients[i][1] : i \in DOMAIN clients}

\* C25: self.clients holds exactly the connections that have registered a
\* name and whose handler has not finished: an entry for every worker between
\* its registration and the start of its final removal, none for a worker that
\* never registered or has finished, and no connection twice.
C25_ClientsExact ==
    /\ \A w \in Workers :
          /\ worker[w].pc \in {"recv_mode", "host_pick", "host_create", "host_wait",
                               "join_list", "join_select"} => w \in C25_Registered
          /\ worker[w].pc \in {"recv_name", "done"} => w \notin C25_Registered
    /\ \A i \in DOMAIN clients : \A j \in DOMAIN clients :
          clients[i][1] = clients[j][1] => i = j

\* C26: every host that has created its match and waits for a challenger owns
\* the registry entry under its battle id (the entry names its socket), and no
\* two such hosts have the same battle id.
C26_HostsKeepTheirEntry ==
    \A h \in Workers :
        worker[h].pc = "host_wait" =>
            /\ worker[h].battle_id \in DOMAIN battles
            /\ battles[worker[h].battle_id].host_socket = h
            /\ \A g \in Workers \ {h} :
                  worker[g].pc = "host_wait" => worker[g].battle_id # worker[h].battle_id

\* C27: the values returned by the calls of receive_data on one end of a
\* connection are, in order, the Action messages handed to send_data on the
\* other end: the i-th value returned is field for field the i-th message
\* sent, however the transport hands over the bytes.
C27_RoundTrip ==
    /\ Len(link.got) <= Len(link.sent)
    /\ \A i \in DOMAIN link.got : link.got[i] = link.sent[i]

\* states of the Pokemon p that differ from p only in what an opponent is not
\* told: the moveset, the stat stages, and the exact HP at an equal fraction
C28_HiddenOfActive(p) ==
    {[p EXCEPT !.moves = m, !.stat_stages = st,
               !.current_hp = k * p.current_hp, !.max_hp = k * p.max_hp] :
        m \in {p.moves, <<"Toxic", "Agility">>},
        st \in {p.stat_stages, [n \in StatNames |-> IF n = "speed" THEN 2 ELSE -6]},
        k \in {1, 2}}

\* what a benched Pokemon p may be instead: itself, itself fainted or at full
\* HP, or another Pokemon
C28_HiddenOfBench(p, kind) ==
    CASE kind = "same" -> p
      [] kind = "fainted" -> [p EXCEPT !.current_hp = 0]
      [] kind = "full" -> [p EXCEPT !.current_hp = p.max_hp]
      [] OTHER -> NewPokemon(4, 50)

\* the battle states that differ from b only in what the player of `side` is
\* not told about the other side
C28_HiddenVariants(b, side) ==
    LET opp == b.player[Other(side)]
        a == opp.active_pokemon_index
    IN {[b EXCEPT !.player[Other(side)] =
            [team |-> [i \in DOMAIN opp.team |->
                          IF i = a THEN act ELSE C28_HiddenOfBench(opp.team[i], kind)],
             active_pokemon_index |-> a,
             potions |-> pots]] :
          act \in C28_HiddenOfActive(opp.team[a]),
          kind \in {"same", "fainted", "full", "other"},
          pots \in {0, opp.potions, 3}}

\* C28: the snapshot built for a side is the same for every battle state that
\* differs from the present one only in the other side's movesets, stat
\* stages, exact HP at an equal HP fraction, benched Pokemon or potion count;
\* and it gives the side's own roster in full detail: for each of its Pokemon
\* the id, moves, current and maximum HP, status and stat stages, and the
\* side's own potion count.
C28_HidesOpponentDetail ==
    [][ (ret' # ret /\ ret'.op = "get_battle_state") =>
          LET side == ret'.side
              pl == player[side]
          IN /\ \A v \in C28_HiddenVariants(Battle, side) :
                    GetBattleState(v, current_turn, side) = ret'.state
             /\ ret'.state.potions = pl.potions
             /\ DOMAIN ret'.state.team = DOMAIN pl.team
             /\ \A i \in DOMAIN pl.team :
                    LET info == ret'.state.team[i] IN
                    /\ info.id = pl.team[i].id /\ info.moves = pl.team[i].moves
                    /\ info.current_hp = pl.team[i].current_hp
                    /\ info.max_hp = pl.team[i].max_hp
                    /\ info.status = pl.team[i].status
                    /\ info.stat_stages = pl.team[i].stat_stages
      ]_vars

\* a snapshot for the first side, taken while the other side's active Pokemon
\* has raised its speed, is hurt but not fainted, and carries a status
C28_Witness ==
    /\ ret.op = "get_battle_state" /\ ret.side = 1
    /\ ret.state = GetBattleState(Battle, current_turn, 1)
    /\ ActivePokemon(player[2]).stat_stages["speed"] > 0
    /\ ActivePokemon(player[2]).status # "none"
    /\ ret.state.opponent_pokemon.current_hp_percent \notin {<<0, 1>>, <<1, 1>>}
    /\ ret.state.team[1].current_hp < ret.state.team[1].max_hp

\* the values an action dictionary of the policies may be
C29_IsAction(a) ==
    \/ a = [type |-> "pass"]
    \/ \E m \in MoveNames : a = MoveAction(m)
    \/ \E i \in -1..6 : a = SwitchAction(i) \/ a = PotionAction(i)

\* C29: in every tier, a call of AIPlayer.choose_action or
\* AIPlayer.choose_switch leaves the battle as it was (both sides' teams with
\* their HP, statuses and stat stages, the active indexes, the potion counts,
\* the turn counter, the terminal flag and the winner) and, when it returns,
\* gives an action value.
C29_PoliciesReadOnly ==
    [][ (ret' # ret /\ ret'.op \in {"choose_action", "choose_switch"}) =>
          /\ UNCHANGED <<player, current_turn, is_battle_over, winner, battle_log,
                         pc, actions>>
          /\ ret'.action # Raise => C29_IsAction(ret'.action)
      ]_vars

\* after a turn, the hard policy has just chosen to switch or to use a potion
C29_Witness ==
    /\ ai_difficulty = "hard" /\ current_turn > 0
    /\ ret.op = "choose_action" /\ ret.action.type \in {"switch", "item"}
    /\ ret.action \in ChooseAction(Battle, 2, ai_difficulty)

\* an action of the player pl that is illegal: a move that is not in the
\* active Pokemon's moveset, a switch to an index out of range or to a fainted
\* Pokemon, a potion with none left or for a target that is out of range,
\* fainted or at full HP
C30_IsIllegal(pl, a) ==
    \/ /\ a.type = "move" /\ HasActive(pl)
       /\ a.move \notin Range(ActivePokemon(pl).moves)
    \/ /\ a.type = "switch"
       /\ \/ a.pokemon_index \notin DOMAIN pl.team
          \/ pl.team[a.pokemon_index].current_hp <= 0
    \/ /\ a.type = "item" /\ a.item = "potion"
       /\ \/ pl.potions = 0
          \/ a.target_index \notin DOMAIN pl.team
          \/ pl.team[a.target_index].current_hp <= 0
          \/ pl.team[a.target_index].current_hp >= pl.team[a.target_index].max_hp

\* execute_turn with the action a for `side` and the action other for the
\* other side
C30_Turn(b, side, a, other) ==
    IF side = 1 THEN ExecuteTurn(b, a, other) ELSE ExecuteTurn(b, other, a)

\* HP, statuses, stat stages, active indexes, potions, terminal flag, winner
C30_State(b) == [player |-> b.player, is_battle_over |-> b.is_battle_over,
                 winner |-> b.winner]

\* the line that describes the failed action a of `side`
C30_Line(side, a) ==
    IF a.type = "move" THEN <<"unknown_move", side>>
    ELSE IF a.type = "switch" THEN <<"switch_failed", side>>
    ELSE <<"potion_failed", side>>

\* the states a turn with an illegal action ends in are those of the turn
\* with pass in its place
C30_SameStates(b, side, a, other) ==
    {C30_State(e) : e \in C30_Turn(b, side, a, other)}
        = {C30_State(e) : e \in C30_Turn(b, side, [type |-> "pass"], other)}

\* C30 as stated: before every turn, for every illegal action of a side and
\* every action of the other side, execute_turn ends in the same states as
\* with pass in its place, and its log has a line describing the failure.
C30_NoOpWithLine ==
    (pc = "idle" /\ ~is_battle_over) =>
        \A side \in Sides :
        \A a \in {x \in ActionValues(player[side]) : C30_IsIllegal(player[side], x)} :
        \A other \in ActionValues(player[Other(side)]) :
            /\ C30_SameStates(Battle, side, a, other)
            /\ \A e \in C30_Turn(Battle, side, a, other) :
                  C30_Line(side, a) \in Range(e.battle_log)

\* both active Pokemon of b are there and have not fainted
C30_BothStanding(b) ==
    \A side \in Sides :
        HasActive(b.player[side]) /\ ~IsFainted(ActivePokemon(b.player[side]))

\* execute_turn's loop and end-of-turn part as RunLoop, each battle it may
\* end in with `came`: the action of `side` had its place in the order before
\* the battle was over and, if it is a move, while both active Pokemon stood
RECURSIVE C30_Run(_, _, _, _)
C30_Run(b, acts, side, came) ==
    IF ~LoopContinues(b, acts) THEN {[battle |-> EndOfTurn(b), came |-> came]}
    ELSE LET entry == Head(acts)
             comes == /\ entry.side = side
                      /\ entry.action.type = "move" => C30_BothStanding(b)
         IN UNION {C30_Run(LoopBody(b, entry, r), Tail(acts), side, came \/ comes) :
                     r \in RollsFor(b, entry)}

C30_Outcomes(b, side, a, other) ==
    LET start == [b EXCEPT !.battle_log = <<>>]
    IN UNION {C30_Run(start, acts, side, FALSE) :
                acts \in IF side = 1 THEN DetermineActionOrder(start, a, other)
                         ELSE DetermineActionOrder(start, other, a)}

\* C30 as amended: before every turn, for every illegal action of a side and
\* every action of the other side, execute_turn ends in the same states as
\* with pass in its place; its log has the line describing the failure
\* exactly when the action's place in the order came before the battle was
\* over and, for a move, while both active Pokemon had not fainted.
C30_NoOpWithLineWhenRun ==
    (pc = "idle" /\ ~is_battle_over) =>
        \A side \in Sides :
        \A a \in {x \in ActionValues(player[side]) : C30_IsIllegal(player[side], x)} :
        \A other \in ActionValues(player[Other(side)]) :
            /\ C30_SameStates(Battle, side, a, other)
            /\ \A o \in C30_Outcomes(Battle, side, a, other) :
                  o.came <=> C30_Line(side, a) \in Range(o.battle.battle_log)

\* a turn has just been played in which the first side named a move it does
\* not have and was told so, while the second side's move hurt it
C30_Witness ==
    /\ pc = "idle" /\ current_turn > 0 /\ ~is_battle_over
    /\ <<"unknown_move", 1>> \in Range(battle_log)
    /\ <<"used", 2>> \in Range(battle_log)
    /\ \E i \in DOMAIN player[1].team :
          player[1].team[i].current_hp < player[1].team[i].max_hp

\* a team reply with an id that is not in POKEMON_DATA or with more than six
\* entries
C31_Misconfigured(reply) ==
    /\ reply.has_team
    /\ \/ Len(reply.team) > 6
       \/ \E i \in DOMAIN reply.team : reply.team[i].id \notin DOMAIN POKEMON_DATA

\* C31: when a team reply holds an unknown species id or more than six
\* entries, the battle is not started: team selection ends with the failure
\* reported.
C31_MisconfigurationReported ==
    (run # "team_selection"
        /\ \/ C31_Misconfigured(replies.host_team_data)
           \/ C31_Misconfigured(replies.challenger_team_data))
    => /\ battles[BattleId].status # "in_progress"
       /\ \A side \in Sides : TeamLen(player[side]) = 0

\* this step executes the move m of `side` and the move connects: the
\* opponent's "took damage" line is added to the log
C32_Connects(side, m) ==
    /\ pc = "acting" /\ actions # <<>> /\ actions' = Tail(actions)
    /\ Head(actions).side = side
    /\ Head(actions).action = [type |-> "move", move |-> m]
    /\ \E i \in (Len(battle_log) + 1)..Len(battle_log') :
          battle_log'[i][1] = "took_damage" /\ battle_log'[i][2] = Other(side)

\* min(defender's missing HP after the hit, move power) of this step
C32_Base(side, m) ==
    LET defender == ActivePokemon(player[Other(side)])'
    IN Min(defender.max_hp - defender.current_hp, MOVE_DATA[m].power)

\* what the attacker's current_hp rises by in this step
C32_Rise(side) ==
    ActivePokemon(player[side])'.current_hp - ActivePokemon(player[side]).current_hp

\* floor(d * base) capped by the attacker's missing HP
C32_Drained(side, m) ==
    Min((C32_Base(side, m) * MOVE_DATA[m].effect.drain) \div 100,
        ActivePokemon(player[side]).max_hp - ActivePokemon(player[side]).current_hp)

\* the recoil part: the attacker loses floor(r * base), at most all its HP
C32_Recoils(side, m) ==
    -C32_Rise(side) = Min((C32_Base(side, m) * MOVE_DATA[m].effect.recoil) \div 100,
                          ActivePokemon(player[side]).current_hp)

\* C32 as stated: a connecting move with a drain fraction raises the
\* attacker's HP by the drained amount whether or not the defender fainted;
\* a recoiling move takes its recoil from the same base.
C32_DrainAlways ==
    [][ \A side \in Sides, m \in MoveNames :
          C32_Connects(side, m) =>
             /\ "drain" \in DOMAIN MOVE_DATA[m].effect =>
                   C32_Rise(side) = C32_Drained(side, m)
             /\ "recoil" \in DOMAIN MOVE_DATA[m].effect => C32_Recoils(side, m)
      ]_vars

\* C32 as amended: a connecting move with a drain fraction raises the
\* attacker's HP by the drained amount when the defender has not fainted, and
\* by nothing when the hit reduced the defender to 0 HP; a recoiling move
\* takes its recoil from the same base in both cases.
C32_DrainUnlessFainted ==
    [][ \A side \in Sides, m \in MoveNames :
          C32_Connects(side, m) =>
             /\ "drain" \in DOMAIN MOVE_DATA[m].effect =>
                   C32_Rise(side) =
                      IF IsFainted(ActivePokemon(player[Other(side)])')
                      THEN 0 ELSE C32_Drained(side, m)
             /\ "recoil" \in DOMAIN MOVE_DATA[m].effect => C32_Recoils(side, m)
      ]_vars

\* Absorb has just hit and restored HP to its user, which is still hurt
C32_Witness ==
    /\ pc = "acting"
    /\ \E i \in DOMAIN battle_log : battle_log[i] = <<"restored", 1>>
    /\ \E i \in DOMAIN battle_log :
          battle_log[i][1] = "took_damage" /\ battle_log[i][2] = 2
    /\ ~IsFainted(ActivePokemon(player[2]))
    /\ ActivePokemon(player[1]).current_hp < ActivePokemon(player[1]).max_hp

\* the active Pokemon of `side` is at 0 HP
C33_Down(side) ==
    HasActive(player[side]) /\ ActivePokemon(player[side]).current_hp = 0

\* C33: when the loop of a turn comes to a move whose user or whose target
\* (the opponent's active Pokemon) is at 0 HP, the move is not executed: no
\* HP, status or stat stage of any Pokemon changes and nothing is logged.
C33_FaintedDoNotAct ==
    [][ ( /\ pc = "acting" /\ actions # <<>> /\ actions' = Tail(actions)
          /\ Head(actions).action.type = "move"
          /\ \E side \in Sides : C33_Down(side) )
        => player' = player /\ battle_log' = battle_log
      ]_vars

\* the first action of the turn has made the other side's active Pokemon
\* faint, the battle goes on, and that Pokemon's move is the next to run
C33_Witness ==
    /\ pc = "acting" /\ ~is_battle_over /\ Len(actions) = 1
    /\ Head(actions).action.type = "move"
    /\ Head(actions).action.move \in Range(ActivePokemon(player[Head(actions).side]).moves)
    /\ C33_Down(Head(actions).side)
    /\ <<"fainted", Head(actions).side>> \in Range(battle_log)
    /\ <<"used", Other(Head(actions).side)>> \in Range(battle_log)


C34_Fainted(side) == {i \in DOMAIN player[side].team : player[side].team[i].current_hp = 0}

\* C34: in every step of a battle with healing and draining moves, potions,
\* switches and forced switches, a Pokemon whose current_hp is 0 keeps
\* current_hp 0 and does not become the active Pokemon, and no side's number
\* of non-fainted Pokemon grows.
C34_FaintingIsPermanent ==
    [][ \A side \in Sides :
          /\ \A i \in C34_Fainted(side) :
                /\ player'[side].team[i].current_hp = 0
                /\ player'[side].active_pokemon_index = i
                      => player[side].active_pokemon_index = i
          /\ UsableCount(player'[side]) <= UsableCount(player[side])
      ]_vars

\* a side whose first Pokemon has fainted and was replaced has tried, in the
\* next turn, to switch back to it, and the other side to heal its own
\* fainted Pokemon with a potion
C34_Witness ==
    /\ current_turn = 2 /\ pc = "acting" /\ actions = <<>> /\ ~is_battle_over
    /\ \E side \in Sides :
          /\ C34_Fainted(side) = {0} /\ player[side].active_pokemon_index = 1
          /\ <<"switch_failed", side>> \in Range(battle_log)
          /\ C34_Fainted(Other(side)) = {0}
          /\ <<"potion_failed", Other(side)>> \in Range(battle_log)

\* C35: an action returned by choose_action to the AIPlayer of either slot
\* is one its policy returns when it scores moves and switches against the
\* active Pokemon of the other side.
C35_ScoredAgainstOtherSide ==
    [][ (ret'.op = "choose_action" /\ UNCHANGED battleVars)
          => ret'.action \in ChooseActionAgainst(player[ret'.side],
                                                 player[Other(ret'.side)], ai_difficulty)
      ]_vars

\* the score of a move as _find_best_move compares it: 0 for a move it skips
C36_Score(pl, opponent_pokemon, m) ==
    IF MoveGet(m).power > 0 THEN MoveScore(pl, opponent_pokemon, m) ELSE <<0, 1>>

\* a move of the active Pokemon that no damaging move of it outscores
C36_IsBestMove(pl, opponent_pokemon, a) ==
    /\ a.type = "move"
    /\ a.move \in Range(ActivePokemon(pl).moves)
    /\ \A m \in Range(ActivePokemon(pl).moves) :
          ~FracLess(C36_Score(pl, opponent_pokemon, a.move),
                    C36_Score(pl, opponent_pokemon, m))

\* what the medium policy says of an action `a` of player `pl`
C36_Policy(pl, opponent_pokemon, a) ==
    LET own == ActivePokemon(pl)
        low == own.current_hp * 100 < 25 * own.max_hp
    IN /\ a.type \in {"move", "item", "switch"}
       /\ ~low => a.type = "move"
       /\ a.type = "item" => /\ low /\ pl.potions > 0
                             /\ a.item = "potion"
                             /\ a.target_index = pl.active_pokemon_index
       /\ a.type = "switch" => /\ low /\ pl.potions = 0
                               /\ a.pokemon_index \in AvailableIndices(pl)
       /\ a.type = "move" => C36_IsBestMove(pl, opponent_pokemon, a)

\* C36: every call of choose_action of the medium tier returns a move when
\* the active Pokemon has at least 25% of its HP; below 25% it returns a
\* potion on the active Pokemon only with potions left, a switch only with
\* no potion left and to a teammate that is not active and has not fainted;
\* and a move it returns is the best-scoring move.
C36_MediumPolicy ==
    [][ (ret'.op = "choose_action" /\ UNCHANGED battleVars /\ ai_difficulty = "medium")
          => C36_Policy(player[ret'.side], ActivePokemon(player[Other(ret'.side)]),
                        ret'.action)
      ]_vars

\* the same of the calls that return an action
C36_MediumPolicyOfReturns ==
    [][ (/\ ret'.op = "choose_action" /\ UNCHANGED battleVars /\ ai_difficulty = "medium"
         /\ ret'.action # Raise)
          => C36_Policy(player[ret'.side], ActivePokemon(player[Other(ret'.side)]),
                        ret'.action)
      ]_vars

\* a move of the active Pokemon that no damaging move of it outscores
C37_IsBestMove(pl, opponent_pokemon, a) ==
    /\ a.type = "move"
    /\ a.move \in Range(ActivePokemon(pl).moves)
    /\ \A m \in Range(ActivePokemon(pl).moves) :
          MoveGet(m).power > 0
              => ~FracLess(MoveScore(pl, opponent_pokemon, a.move),
                           MoveScore(pl, opponent_pokemon, m))

\* what the hard policy says of an action `a` of player `pl`, which switches
\* when `switches` holds of the matchup score s and the HP percentage
C37_Policy(pl, opponent_pokemon, a, switches(_, _)) ==
    LET own == ActivePokemon(pl)
        s == CalculateEffectivenessScore(own, opponent_pokemon)
        in_band == /\ 15 * own.max_hp <= own.current_hp * 100
                   /\ own.current_hp * 100 <= 40 * own.max_hp
        potion == /\ in_band /\ pl.potions > 0
                  /\ (FracLess(<<4, 5>>, s) \/ AvailableIndices(pl) = {})
    IN /\ a.type \in {"move", "item", "switch"}
       /\ IF switches(s, pl)
          THEN a.type = "switch" /\ a.pokemon_index \in AvailableIndices(pl)
          ELSE IF potion THEN a = PotionAction(pl.active_pokemon_index)
          ELSE C37_IsBestMove(pl, opponent_pokemon, a)
       /\ a.type = "item" => in_band

\* s < 0.7 or h < 30%, and there is a teammate to switch to
C37_Switches(s, pl) ==
    /\ AvailableIndices(pl) # {}
    /\ \/ FracLess(s, <<7, 10>>)
       \/ ActivePokemon(pl).current_hp * 100 < 30 * ActivePokemon(pl).max_hp

\* C37: every call of choose_action of the hard tier returns a switch to a
\* teammate that is not active and has not fainted when there is one and the
\* matchup score is below 0.7 or the HP fraction below 30%; otherwise a
\* potion on the active Pokemon exactly when the HP fraction is in
\* [15%, 40%], a potion is left and the score is above 0.8 or no switch is
\* possible; otherwise the best-scoring move; and never a potion with the HP
\* fraction outside [15%, 40%].
C37_HardPolicy ==
    [][ (ret'.op = "choose_action" /\ UNCHANGED battleVars /\ ai_difficulty = "hard")
          => C37_Policy(player[ret'.side], ActivePokemon(Opponent(Battle, ret'.side)),
                        ret'.action, C37_Switches)
      ]_vars

\* the same of the calls that return an action
C37_HardPolicyOfReturns ==
    [][ (/\ ret'.op = "choose_action" /\ UNCHANGED battleVars /\ ai_difficulty = "hard"
         /\ ret'.action # Raise)
          => C37_Policy(player[ret'.side], ActivePokemon(Opponent(Battle, ret'.side)),
                        ret'.action, C37_Switches)
      ]_vars

\* the bytes send_data puts on the stream for the messages of `sent`
RECURSIVE C38_Frames(_)
C38_Frames(sent) ==
    IF sent = <<>> THEN <<>>
    ELSE ToBytes4(Len(Dumps(Head(sent)))) \o Dumps(Head(sent)) \o C38_Frames(Tail(sent))

\* C38: however the transport hands over the bytes of the frames, in the
\* header as in the body, no call of receive_data reports a message as
\* missing: the i-th call returns what the payload of the i-th frame decodes
\* to, and between two calls exactly the frames of the messages not yet
\* returned are left on the stream.
C38_FramesReassembled ==
    /\ \A i \in DOMAIN link.got :
          link.got[i] # None /\ link.got[i] = Loads(Dumps(link.sent[i]))
    /\ link.rx.at = "header"
          => link.stream = C38_Frames(SubSeq(link.sent, Len(link.got) + 1, Len(link.sent)))

\* the matches a joiner has been attached to
C39_Joined == {id \in DOMAIN battles : battles[id].challenger_socket # 0}

\* C39: once a joiner has been attached to a match, the match is not among
\* the available battles, and no step replaces the challenger socket and
\* name recorded for it.
C39_OneChallenger ==
    [][ /\ \A id \in DOMAIN battles' :
             battles'[id].challenger_socket # 0 => battles'[id].status # "waiting"
        /\ \A id \in C39_Joined :
             id \in DOMAIN battles'
                => /\ battles'[id].challenger_socket = battles[id].challenger_socket
                   /\ battles'[id].challenger_name = battles[id].challenger_name
      ]_vars

\* the second half of C39 alone: the recorded challenger is never replaced
C39_ChallengerKept ==
    [][ \A id \in C39_Joined :
          id \in DOMAIN battles'
             => /\ battles'[id].challenger_socket = battles[id].challenger_socket
                /\ battles'[id].challenger_name = battles[id].challenger_name
      ]_vars

\* a legal action of player `pl`: a move of its active Pokemon, a switch to a
\* teammate that is not active and has not fainted, or a potion, with one
\* left, on a Pokemon of the team that has not fainted and is below its max HP
C40_IsLegal(pl, a) ==
    \/ a.type = "move" /\ a.move \in Range(ActivePokemon(pl).moves)
    \/ /\ a.type = "switch"
       /\ a.pokemon_index \in DOMAIN pl.team
       /\ a.pokemon_index # pl.active_pokemon_index
       /\ pl.team[a.pokemon_index].current_hp > 0
    \/ /\ a.type = "item" /\ a.item = "potion"
       /\ pl.potions > 0
       /\ a.target_index \in DOMAIN pl.team
       /\ pl.team[a.target_index].current_hp > 0
       /\ pl.team[a.target_index].current_hp < pl.team[a.target_index].max_hp

\* the lines the engine logs for an action it refuses
C40_Refused(side) ==
    {<<"unknown_move", side>>, <<"switch_failed", side>>, <<"potion_failed", side>>}

\* C40: in a battle against an AIPlayer of any tier, every action that
\* choose_action returns while the AIPlayer's active Pokemon is alive is a
\* legal action, and no turn logs a refused action of the AIPlayer.
C40_OnlyLegalActions ==
    /\ [][ (/\ ret'.op = "choose_action" /\ UNCHANGED battleVars
             /\ ret'.action # Raise
             /\ ActivePokemon(player[ret'.side]).current_hp > 0)
              => C40_IsLegal(player[ret'.side], ret'.action)
          ]_vars
    /\ [](C40_Refused(2) \cap Range(battle_log) = {})

\* the AIPlayer has been given a potion on a hurt Pokemon, with a fainted
\* teammate that it may not switch to
C40_Witness ==
    /\ ret.op = "choose_action" /\ current_turn = 0
    /\ ret.action.type = "item"
    /\ \E i \in DOMAIN player[2].team : player[2].team[i].current_hp = 0

====
